---- MODULE Spec2Model ----
(***************************************************************************)
(* A model of the jsonyx C accelerator: the scanner (text -> value tree)   *)
(* and the encoder (value tree -> text).                                   *)
(*                                                                         *)
(* Texts are sequences of code points (integers).  The C code indexes a    *)
(* text from 0; READ(str, i) reads the code point at the C index i.        *)
(* A diagnostic is the message and the two offsets handed to raise_errmsg. *)
(***************************************************************************)
EXTENDS Integers, Sequences, FiniteSets, TLC

VARIABLES
    gen,        \* which scanner is running: "speedups" or "accelerator"
    s,          \* the PyScannerObject: its option fields
    encoder,    \* the PyEncoderObject: its fields, or NoEncoder
    obj,        \* the value handed to encoder_call
    heap,       \* the lists and dicts that obj refers to by identity
    pystr,      \* the text handed to scanner_call
    shape,      \* how pystr was built: the description of the input case
    pc,         \* position inside scanner_call / encoder_call
    idx,        \* scanner_call's local idx
    rval,       \* scanner_call's local rval (the value scanned so far)
    err,        \* the diagnostic raised, or NoErr
    alloc       \* the allocation made to fail, and how often each object
                \* of the call was created and released

scan_vars == <<gen, s, encoder, obj, heap, pystr, shape, pc, idx, rval, err, alloc>>

(***************************************************************************)
(* Characters                                                              *)
(***************************************************************************)
CH == [ tab |-> 9, lf |-> 10, ff |-> 12, cr |-> 13, bs |-> 8,
        space |-> 32, quote |-> 34, star |-> 42, plus |-> 43, comma |-> 44,
        minus |-> 45, dot |-> 46, slash |-> 47, zero |-> 48, one |-> 49, three |-> 51, six |-> 54, eight |-> 56,
        nine |-> 57, colon |-> 58, A |-> 65, E |-> 69, F |-> 70, I |-> 73,
        D |-> 68, d |-> 100,
        N |-> 78, Z |-> 90, lbracket |-> 91, backslash |-> 92,
        rbracket |-> 93, underscore |-> 95, a |-> 97, b |-> 98, e |-> 101,
        f |-> 102, i |-> 105, l |-> 108, n |-> 110, r |-> 114, s |-> 115,
        t |-> 116, u |-> 117, y |-> 121, z |-> 122, lbrace |-> 123,
        rbrace |-> 125, tilde |-> 126, del |-> 127,
        bom |-> 65279 ]

READ(str, i) == str[i + 1]

\* PyUnicode_Substring(str, start, end): the code points at C indices [start, end)
Substring(str, start, end) == SubSeq(str, start + 1, end)

IsDigit(c) == c >= CH.zero /\ c <= CH.nine

(***************************************************************************)
(* Results of the scanning functions.  A C function that returns NULL / -1 *)
(* after raise_errmsg(msg, ..., start, end) is Fail(msg, start, end).      *)
(***************************************************************************)
NoErr == [msg |-> "", start |-> 0, end |-> 0]

Fail(msg, start, end) == [ok |-> FALSE, err |-> [msg |-> msg, start |-> start, end |-> end]]

(***************************************************************************)
(* _skip_comments                                                          *)
(***************************************************************************)
RECURSIVE LineCommentEnd_LfOnly(_, _)
\* a line comment that ends at LF only
LineCommentEnd_LfOnly(str, i) ==
    IF i < Len(str) /\ READ(str, i) # CH.lf
    THEN LineCommentEnd_LfOnly(str, i + 1)
    ELSE i

RECURSIVE LineCommentEnd(_, _)
\* the inner loop of a `//` comment: the first index at or after i that is
\* the end of the text or holds LF or CR
LineCommentEnd(str, i) ==
    IF i < Len(str) /\ READ(str, i) # CH.lf /\ READ(str, i) # CH.cr
    THEN LineCommentEnd(str, i + 1)
    ELSE i

RECURSIVE BlockCommentEnd(_, _)
\* the inner loop of a `/*` comment: -1 when idx + 1 >= len is reached
\* (unterminated), else the index of the closing `*`
BlockCommentEnd(str, i) ==
    IF i + 1 >= Len(str) THEN -1
    ELSE IF READ(str, i) = CH.star /\ READ(str, i + 1) = CH.slash THEN i
    ELSE BlockCommentEnd(str, i + 1)

\* the termination check reported whatever the permission is
UnterminatedCommentMsg_Always(allow_comments) == "Unterminated comment"

UnterminatedCommentMsg(allow_comments) ==
    IF allow_comments THEN "Unterminated comment" ELSE "Comments are not allowed"

RECURSIVE _skip_comments(_, _, _)
_skip_comments(so, str, i) ==
    LET len == Len(str) IN
    IF i >= len THEN [ok |-> TRUE, idx |-> i]
    ELSE
    LET c == READ(str, i)
        comment_idx == i
    IN
    IF c = CH.space \/ c = CH.tab \/ c = CH.lf \/ c = CH.cr
    THEN _skip_comments(so, str, i + 1)
    ELSE IF i + 1 < len /\ c = CH.slash /\ READ(str, i + 1) = CH.slash
    THEN LET j == LineCommentEnd(str, i + 2) IN
         IF ~so.allow_comments
         THEN Fail("Comments are not allowed", comment_idx, j)
         ELSE _skip_comments(so, str, j)
    ELSE IF i + 1 < len /\ c = CH.slash /\ READ(str, i + 1) = CH.star
    THEN LET k == BlockCommentEnd(str, i + 2) IN
         IF k < 0
         THEN Fail(UnterminatedCommentMsg(so.allow_comments), comment_idx, len)
         ELSE IF ~so.allow_comments
         THEN Fail("Comments are not allowed", comment_idx, k + 2)
         ELSE _skip_comments(so, str, k + 2)
    ELSE [ok |-> TRUE, idx |-> i]

(***************************************************************************)
(* scanstring_unicode                                                      *)
(***************************************************************************)
StrVal(chars) == [t |-> "str", chars |-> chars]

\* the capital letters A..F not taken for hex digits
HexDigit_LowerCase(d) ==
    IF d >= CH.zero /\ d <= CH.nine THEN d - CH.zero
    ELSE IF d >= CH.a /\ d <= CH.f THEN d - CH.a + 10
    ELSE -1

\* the value of one hex digit as the two decoding switches compute it; -1
\* for the default: branch
HexDigit(d) ==
    IF d >= CH.zero /\ d <= CH.nine THEN d - CH.zero
    ELSE IF d >= CH.a /\ d <= CH.f THEN d - CH.a + 10
    ELSE IF d >= CH.A /\ d <= CH.F THEN d - CH.A + 10
    ELSE -1

\* c <<= 4; c |= digit over four digits; -1 when one of them is no hex digit
Combine4Hex(h0, h1, h2, h3) ==
    IF h0 < 0 \/ h1 < 0 \/ h2 < 0 \/ h3 < 0 THEN -1
    ELSE ((h0 * 16 + h1) * 16 + h2) * 16 + h3

\* "Decode 4 hex digits" at C indices [from, from + 4)
Decode4Hex(str, from) ==
    Combine4Hex(HexDigit(READ(str, from)), HexDigit(READ(str, from + 1)),
                HexDigit(READ(str, from + 2)), HexDigit(READ(str, from + 3)))

\* Py_UNICODE_IS_HIGH_SURROGATE: 0xD800 <= c <= 0xDBFF
IsHighSurrogate(c) == c >= 55296 /\ c <= 56319
\* Py_UNICODE_IS_LOW_SURROGATE: 0xDC00 <= c <= 0xDFFF
IsLowSurrogate(c) == c >= 56320 /\ c <= 57343
\* Py_UNICODE_JOIN_SURROGATES: 0x10000 + (((c & 0x3FF) << 10) | (c2 & 0x3FF))
JoinSurrogates(c, c2) == 65536 + ((c % 1024) * 1024) + (c2 % 1024)

RECURSIVE FindChunkEnd(_, _)
\* the for loop "Find the end of the string or the next escape": the first
\* index next >= i that is len or holds `"`, `\` or a character <= 0x1f
FindChunkEnd(str, i) ==
    IF i < Len(str) /\ READ(str, i) # CH.quote /\ READ(str, i) # CH.backslash
                    /\ READ(str, i) > 31
    THEN FindChunkEnd(str, i + 1)
    ELSE i

\* the switch over the character after a backslash that is not `u`;
\* -1 for the default: branch
SimpleEscape(c) ==
    IF c = CH.quote \/ c = CH.backslash \/ c = CH.slash THEN c
    ELSE IF c = CH.b THEN CH.bs
    ELSE IF c = CH.f THEN CH.ff
    ELSE IF c = CH.n THEN CH.lf
    ELSE IF c = CH.r THEN CH.cr
    ELSE IF c = CH.t THEN CH.tab
    ELSE -1

\* the two offsets of the refusal in the wrong order
UnpairedSurrogate_Swapped(so, c, end) ==
    IF ~so.allow_surrogates THEN Fail("Surrogates are not allowed", end, end - 6)
    ELSE [ok |-> TRUE, c |-> c, end |-> end]

\* a surrogate that stays unpaired, the \uXXXX that wrote it ending at end
UnpairedSurrogate(so, c, end) ==
    IF ~so.allow_surrogates THEN Fail("Surrogates are not allowed", end - 6, end)
    ELSE [ok |-> TRUE, c |-> c, end |-> end]

\* the second escape joined to the first whatever it decodes to
SecondSurrogate_AnyJoin(so, c, end, c2) ==
    IF c2 < 0 THEN Fail("Expecting 4 hex digits", end + 2, -4)
    ELSE [ok |-> TRUE, c |-> JoinSurrogates(c, c2), end |-> end + 6]

\* the high surrogate c and the code unit c2 decoded from the \uXXXX that
\* follows it (c2 < 0: not four hex digits)
SecondSurrogate(so, c, end, c2) ==
    IF c2 < 0 THEN Fail("Expecting 4 hex digits", end + 2, -4)
    ELSE IF IsLowSurrogate(c2)
    THEN [ok |-> TRUE, c |-> JoinSurrogates(c, c2), end |-> end + 6]
    ELSE UnpairedSurrogate(so, c, end)

\* what follows the four hex digits of a \uXXXX escape decoded to c, with end
\* the index after them: the code point to write and the new end, or a failure
SurrogatePair(so, str, c, end) ==
    IF IsHighSurrogate(c) THEN
        IF end + 2 < Len(str) /\ READ(str, end) = CH.backslash /\ READ(str, end + 1) = CH.u
        THEN IF end + 6 > Len(str)
             THEN Fail("Expecting 4 hex digits", end + 2, -4)
             ELSE SecondSurrogate(so, c, end, Decode4Hex(str, end + 2))
        ELSE UnpairedSurrogate(so, c, end)
    ELSE IF IsLowSurrogate(c) THEN UnpairedSurrogate(so, c, end)
    ELSE [ok |-> TRUE, c |-> c, end |-> end]

\* a \uXXXX escape whose digits, ending at end, decode to c (c < 0: not four
\* hex digits)
UnicodeEscape(so, str, end, c) ==
    IF c < 0 THEN Fail("Expecting 4 hex digits", end - 4, -4)
    ELSE SurrogatePair(so, str, c, end)

\* an escape that is not \u: c is the character after the backslash, at end - 1
CharEscape(c, end) ==
    IF SimpleEscape(c) >= 0 THEN [ok |-> TRUE, c |-> SimpleEscape(c), end |-> end]
    ELSE IF c = CH.lf \/ c = CH.cr
    THEN Fail("Expecting escaped character", end - 1, 0)
    ELSE Fail("Invalid backslash escape", end - 2, end)

\* one backslash escape; next is the index of the character after the `\`
ScanEscape(so, str, next) ==
    IF next = Len(str) THEN Fail("Expecting escaped character", next, 0)
    ELSE IF READ(str, next) # CH.u THEN CharEscape(READ(str, next), next + 1)
    ELSE IF next + 1 + 4 > Len(str) THEN Fail("Expecting 4 hex digits", next + 1, -4)
    ELSE UnicodeEscape(so, str, next + 1 + 4, Decode4Hex(str, next + 1))

RECURSIVE scanstring_loop(_, _, _, _, _, _)

\* after an escape was read: write its character and go round the loop
scanstring_escaped(so, str, begin, buf, esc) ==
    IF ~esc.ok THEN esc
    ELSE scanstring_loop(so, str, begin, esc.end, Append(buf, esc.c), TRUE)

\* the chunk [end, next) was found to end on `"` or `\` (the character c) and
\* the writer, with the chunk written, holds buf
scanstring_chunk(so, str, begin, next, c, buf) ==
    IF c = CH.quote
    THEN [ok |-> TRUE, val |-> StrVal(buf), next |-> next + 1]
    ELSE scanstring_escaped(so, str, begin, buf, ScanEscape(so, str, next + 1))

\* one round of the while (1) loop, the chunk found to end at next; buf and
\* buffered are the writer (its content, and whether writer.buffer is set)
scanstring_round(so, str, begin, end, buf, buffered, next) ==
    IF next < Len(str) /\ READ(str, next) <= 31 THEN
        IF READ(str, next) = CH.lf \/ READ(str, next) = CH.cr
        THEN Fail("Unterminated string", begin, next)
        ELSE Fail("Unescaped control character", next, next + 1)
    ELSE IF next < Len(str) /\ READ(str, next) = CH.quote /\ ~buffered
    THEN [ok |-> TRUE, val |-> StrVal(Substring(str, end, next)), next |-> next + 1]
    ELSE IF next >= Len(str)
    THEN Fail("Unterminated string", begin, next)
    ELSE scanstring_chunk(so, str, begin, next, READ(str, next),
                          IF next # end THEN buf \o Substring(str, end, next) ELSE buf)

scanstring_loop(so, str, begin, end, buf, buffered) ==
    scanstring_round(so, str, begin, end, buf, buffered, FindChunkEnd(str, end))

\* list(text), the str_hook of the scanners that have one: the list of the
\* characters, an object that cannot be hashed
ListOf(chars) ==
    [t |-> "arr", items |-> [k \in 1..Len(chars) |-> [t |-> "str", chars |-> <<chars[k]>>]]]

\* "if (s->str_hook != &PyUnicode_Type) rval = str_hook(rval)"
StrHook(so, r) ==
    IF r.ok /\ so.str_hook # "str"
    THEN [ok |-> TRUE, val |-> ListOf(r.val.chars), next |-> r.next]
    ELSE r

\* end is the index of the first character after the opening quote
scanstring_unicode(so, str, end) ==
    StrHook(so, scanstring_loop(so, str, end - 1, end, <<>>, FALSE))

(***************************************************************************)
(* Values.  Every variant has its own field names, so that two values of   *)
(* different variants are unequal records.                                 *)
(***************************************************************************)
NullVal == [t |-> "null"]
BoolVal(b) == [t |-> "bool", b |-> b]
IntVal(n) == [t |-> "int", n |-> n]
\* a Float: finite (standing for the value its literal denotes), or one of
\* the non-finite values
FloatVal(kind, lit) == [t |-> "float", kind |-> kind, lit |-> lit]
ArrVal(items) == [t |-> "arr", items |-> items]
\* a dict: its (key, value) pairs in insertion order.  A pair holds the key's
\* text, the identity of the key object (inst: the index of the key literal
\* that created it) and whether the key object is a DuplicateKey
ObjVal(pairs) == [t |-> "obj", pairs |-> pairs]
\* what object_hook is called with when it is not dict: the list of pairs
PairsVal(pairs) == [t |-> "pairs", pairs |-> pairs]
Pair(key, inst, dup, val) == [key |-> key, inst |-> inst, dup |-> dup, val |-> val]

(***************************************************************************)
(* _match_number_unicode, _parse_number_unicode                            *)
(***************************************************************************)
RECURSIVE SkipDigits(_, _)
\* while (idx < len && '0' <= str[idx] <= '9') idx++
SkipDigits(str, i) ==
    IF i < Len(str) /\ IsDigit(READ(str, i)) THEN SkipDigits(str, i + 1) ELSE i

\* the exponent kept although no digit was read
MatchExponentEnd_NoBacktrack(str, e_start, i) ==
    [ok |-> TRUE, idx |-> i, is_float |-> TRUE]

\* "if we got a digit, then parse as float. if not, backtrack": the exponent
\* entered at e_start, its sign and digits read up to i
MatchExponentEnd(str, e_start, i) ==
    IF IsDigit(READ(str, i - 1))
    THEN [ok |-> TRUE, idx |-> i, is_float |-> TRUE]
    ELSE [ok |-> TRUE, idx |-> e_start, is_float |-> FALSE]

\* the exponent part, entered at the `e`/`E` at e_start
MatchExponent(str, e_start) ==
    MatchExponentEnd(str, e_start,
        SkipDigits(str, IF e_start + 2 < Len(str)
                           /\ (READ(str, e_start + 1) = CH.minus
                               \/ READ(str, e_start + 1) = CH.plus)
                        THEN e_start + 2 ELSE e_start + 1))

\* *is_float = 1 was set by the fraction
WithFraction(frac, m) == [ok |-> TRUE, idx |-> m.idx, is_float |-> frac \/ m.is_float]

\* "if the next char is 'e' or 'E' then maybe read the exponent"
MatchAfterFraction(str, frac, i) ==
    IF i + 1 < Len(str) /\ (READ(str, i) = CH.e \/ READ(str, i) = CH.E)
    THEN WithFraction(frac, MatchExponent(str, i))
    ELSE [ok |-> TRUE, idx |-> i, is_float |-> frac]

\* "if the next char is '.' followed by a digit then read all float digits"
MatchAfterInteger(str, i) ==
    IF i + 1 < Len(str) /\ READ(str, i) = CH.dot /\ IsDigit(READ(str, i + 1))
    THEN MatchAfterFraction(str, TRUE, SkipDigits(str, i + 2))
    ELSE MatchAfterFraction(str, FALSE, i)

\* the integer digits, after the sign
MatchInteger(str, i) ==
    IF i >= Len(str) THEN [ok |-> FALSE]
    ELSE IF READ(str, i) >= CH.one /\ READ(str, i) <= CH.nine
    THEN MatchAfterInteger(str, SkipDigits(str, i + 1))
    ELSE IF READ(str, i) = CH.zero THEN MatchAfterInteger(str, i + 1)
    ELSE [ok |-> FALSE]

_match_number_unicode(str, start) ==
    MatchInteger(str, IF READ(str, start) = CH.minus THEN start + 1 ELSE start)

RECURSIVE DecimalValue(_)
\* the number a run of ASCII digits denotes
DecimalValue(digits) ==
    IF digits = <<>> THEN 0
    ELSE DecimalValue(SubSeq(digits, 1, Len(digits) - 1)) * 10
         + (digits[Len(digits)] - CH.zero)

\* PyLong_FromString(buf, NULL, 10) on a literal the matcher accepted
PyLong_FromString(numstr) ==
    IF numstr[1] = CH.minus
    THEN IntVal(0 - DecimalValue(Tail(numstr)))
    ELSE IntVal(DecimalValue(numstr))

\* binary64: the largest decimal exponent of a finite double (DBL_MAX_10_EXP)
DBL_MAX_10_EXP == 308

\* the first position of seq that holds a member of S; Len(seq) + 1 if none
FirstIndexOf(seq, S) ==
    IF \E k \in 1..Len(seq) : seq[k] \in S
    THEN CHOOSE k \in 1..Len(seq) :
            seq[k] \in S /\ \A j \in 1..(k - 1) : seq[j] \notin S
    ELSE Len(seq) + 1

\* the value of the exponent of the unsigned literal body, whose `e` is at
\* epos (Len(body) + 1: no exponent)
ExponentValue(body, epos) ==
    IF epos > Len(body) THEN 0
    ELSE IF body[epos + 1] = CH.minus
    THEN 0 - DecimalValue(SubSeq(body, epos + 2, Len(body)))
    ELSE IF body[epos + 1] = CH.plus THEN DecimalValue(SubSeq(body, epos + 2, Len(body)))
    ELSE DecimalValue(SubSeq(body, epos + 1, Len(body)))

\* a mantissa with `.` at dpos and its first non-zero digit at first, times
\* 10^expo, is d.ddd x 10^adj: whether adj > DBL_MAX_10_EXP
ExponentTooLarge(mant, dpos, first, expo) ==
    /\ first <= Len(mant)
    /\ (IF first < dpos THEN dpos - 1 - first + expo ELSE dpos - first + expo)
            > DBL_MAX_10_EXP

MantissaOverflows(mant, expo) ==
    ExponentTooLarge(mant, FirstIndexOf(mant, {CH.dot}),
                     FirstIndexOf(mant, CH.one..CH.nine), expo)

UnsignedOverflows(body, epos) ==
    MantissaOverflows(SubSeq(body, 1, epos - 1), ExponentValue(body, epos))

\* whether a float literal the matcher accepted is beyond the binary64 range:
\* it is d.ddd x 10^adj with d its first non-zero digit, and overflows when
\* adj > DBL_MAX_10_EXP (a literal with adj = DBL_MAX_10_EXP, within one
\* decade of DBL_MAX, is finite here: the inputs hold none above DBL_MAX)
LiteralOverflows(numstr) ==
    IF numstr[1] = CH.minus
    THEN UnsignedOverflows(Tail(numstr), FirstIndexOf(Tail(numstr), {CH.e, CH.E}))
    ELSE UnsignedOverflows(numstr, FirstIndexOf(numstr, {CH.e, CH.E}))

\* PyFloat_FromString on a literal the matcher accepted: out of range gives
\* an infinity, without an error
PyFloat_FromString(numstr) ==
    IF LiteralOverflows(numstr)
    THEN FloatVal(IF numstr[1] = CH.minus THEN "-inf" ELSE "inf", <<>>)
    ELSE FloatVal("finite", numstr)

\* the number the matcher accepted over [start, m.idx), converted; float_hook
\* and int_hook are the built-in float and int
ConvertNumber(str, start, m) ==
    IF ~m.ok THEN Fail("Expecting value", start, 0)
    ELSE [ok |-> TRUE,
          val |-> IF m.is_float THEN PyFloat_FromString(Substring(str, start, m.idx))
                  ELSE PyLong_FromString(Substring(str, start, m.idx)),
          next |-> m.idx]

_parse_number_unicode(so, str, start) ==
    ConvertNumber(str, start, _match_number_unicode(str, start))

(***************************************************************************)
(* Character classes of the Unicode database, for the code points the      *)
(* inputs use: ASCII exactly; above 0x7F, e-acute (U+00E9) and pi (U+03C0) *)
(* are letters, every other code point (the multiplication sign U+00D7) is *)
(* neither a letter nor a digit nor an identifier character.               *)
(***************************************************************************)
UnicodeLetters == {233, 960}

Py_UNICODE_ISALPHA(c) ==
    \/ (c >= CH.A /\ c <= CH.Z)
    \/ (c >= CH.a /\ c <= CH.z)
    \/ c \in UnicodeLetters

Py_UNICODE_ISALNUM(c) == Py_UNICODE_ISALPHA(c) \/ IsDigit(c)

\* PyUnicode_IsIdentifier: XID_Start or `_`, then XID_Continue
PyUnicode_IsIdentifier(key) ==
    /\ key # <<>>
    /\ (Py_UNICODE_ISALPHA(key[1]) \/ key[1] = CH.underscore)
    /\ \A k \in 2..Len(key) : Py_UNICODE_ISALNUM(key[k]) \/ key[k] = CH.underscore

(***************************************************************************)
(* The objects a call creates for itself: how often each was created and   *)
(* how often released                                                      *)
(***************************************************************************)
\* nothing created, nothing released
NoCounts == [writer |-> 0, indent_cache |-> 0, markers |-> 0, memo |-> 0]

\* the state of a call in which the allocation `fault` is to fail ("none":
\* no allocation fails); none_decref counts the Py_DECREF of a None that
\* the call holds no reference to; walk has the marker dict and
\* the indent cache as encoder_listencode_obj left them, the states the dict
\* went through, and the updates and the reads of the cache
Resources(fault) ==
    [fault |-> fault, made |-> NoCounts, freed |-> NoCounts, none_decref |-> 0,
     walk |-> [ok |-> TRUE, ids |-> {}, trail |-> <<>>, first |-> TRUE,
               cache |-> <<>>, updates |-> <<>>, reads |-> <<>>]]

NoFault == Resources("none")

\* a MemoryError left pending by a failed allocation
MemoryError == [msg |-> "MemoryError", start |-> -1, end |-> -1]

(***************************************************************************)
(* The memo (key interning) and the dict under construction                *)
(***************************************************************************)
\* memo is None (cache_keys = false) or a dict from key text to the key
\* object first stored for it
NoMemo == [on |-> FALSE, tab |-> {}]
NewMemo == [on |-> TRUE, tab |-> {}]

\* PyDict_SetDefault(memo, key, key): the key object stored for the text
MemoInst(memo, chars, inst) ==
    IF \E m \in memo.tab : m.chars = chars
    THEN (CHOOSE m \in memo.tab : m.chars = chars).inst
    ELSE inst

MemoSetDefault(memo, chars, inst) ==
    IF \E m \in memo.tab : m.chars = chars THEN memo
    ELSE [memo EXCEPT !.tab = @ \cup {[chars |-> chars, inst |-> inst]}]

\* PyDict_SetItem(rval, key, val) for a str key: a key equal to a stored str
\* key keeps its place and its key object, and gets the new value
PyDict_SetItem(pairs, key, inst, val) ==
    IF \E k \in 1..Len(pairs) : ~pairs[k].dup /\ pairs[k].key = key
    THEN [k \in 1..Len(pairs) |->
            IF ~pairs[k].dup /\ pairs[k].key = key
            THEN [pairs[k] EXCEPT !.val = val] ELSE pairs[k]]
    ELSE Append(pairs, Pair(key, inst, FALSE, val))

(***************************************************************************)
(* _parse_object_unicode, _parse_array_unicode, scan_once_unicode          *)
(***************************************************************************)
RECURSIVE IdentifierEnd(_, _)
\* the while loop over the characters of an unquoted key
IdentifierEnd(str, i) ==
    IF i < Len(str) /\ (Py_UNICODE_ISALNUM(READ(str, i)) \/ READ(str, i) = CH.underscore
                        \/ READ(str, i) > CH.del)
    THEN IdentifierEnd(str, i + 1)
    ELSE i

\* a key read by scanstring_unicode
QuotedKey(k) ==
    IF ~k.ok THEN k
    ELSE IF k.val.t = "str"
    THEN [ok |-> TRUE, key |-> k.val.chars, hashable |-> TRUE, next |-> k.next]
    ELSE [ok |-> TRUE, key |-> k.val, hashable |-> FALSE, next |-> k.next]

\* the unquoted key refused over the first character only
UnquotedKey_ShortRange(so, str, i, next_idx) ==
    IF ~PyUnicode_IsIdentifier(Substring(str, i, next_idx))
    THEN Fail("Expecting key", i, 0)
    ELSE IF ~so.allow_unquoted_keys
    THEN Fail("Unquoted keys are not allowed", i, i + 1)
    ELSE [ok |-> TRUE, key |-> Substring(str, i, next_idx), hashable |-> TRUE,
          next |-> next_idx]

\* the unquoted key over [i, next_idx)
UnquotedKey(so, str, i, next_idx) ==
    IF ~PyUnicode_IsIdentifier(Substring(str, i, next_idx))
    THEN Fail("Expecting key", i, 0)
    ELSE IF ~so.allow_unquoted_keys
    THEN Fail("Unquoted keys are not allowed", i, next_idx)
    ELSE [ok |-> TRUE, key |-> Substring(str, i, next_idx), hashable |-> TRUE,
          next |-> next_idx]

\* "read key" at idx < len: the key text and the index after it
ReadKey(so, str, i) ==
    IF READ(str, i) = CH.quote THEN QuotedKey(scanstring_unicode(so, str, i + 1))
    ELSE IF ~Py_UNICODE_ISALPHA(READ(str, i)) /\ READ(str, i) # CH.underscore
            /\ READ(str, i) <= CH.del
    THEN Fail("Expecting key", i, 0)
    ELSE UnquotedKey(so, str, i, IdentifierEnd(str, i + 1))

\* the `:` expected at the cursor sk left, and the comments after it
ColonAt(so, str, colon_idx, sk) ==
    IF ~sk.ok THEN sk
    ELSE IF sk.idx >= Len(str) \/ READ(str, sk.idx) # CH.colon
    THEN Fail("Expecting colon", colon_idx, 0)
    ELSE _skip_comments(so, str, sk.idx + 1)

\* "skip comments between key and : delimiter, read :, skip comments"
ReadColon(so, str, colon_idx) ==
    ColonAt(so, str, colon_idx, _skip_comments(so, str, colon_idx))

\* a closing bracket after a `,` accepted whatever allow_trailing_comma is
AfterComma_Lenient(so, str, close, comma_idx, sk) ==
    IF ~sk.ok THEN sk
    ELSE [ok |-> TRUE, brk |-> sk.idx < Len(str) /\ READ(str, sk.idx) = close,
          idx |-> sk.idx]

\* what closes the loop body of either container, the comments after a `,`
\* at comma_idx skipped to sk: a closing bracket there is a trailing comma
AfterComma(so, str, close, comma_idx, sk) ==
    IF ~sk.ok THEN sk
    ELSE IF sk.idx < Len(str) /\ READ(str, sk.idx) = close
    THEN IF ~so.allow_trailing_comma
         THEN Fail("Trailing comma is not allowed", comma_idx, comma_idx + 1)
         ELSE [ok |-> TRUE, brk |-> TRUE, idx |-> sk.idx]
    ELSE [ok |-> TRUE, brk |-> FALSE, idx |-> sk.idx]

\* the delimiter check without the test idx == comma_idx
ObjectDelimiter_NoAdjacency(so, str, obj_idx, next_idx, sk) ==
    IF ~sk.ok THEN sk
    ELSE IF sk.idx >= Len(str) THEN Fail("Unterminated object", obj_idx, sk.idx)
    ELSE IF READ(str, sk.idx) = CH.comma
    THEN AfterComma(so, str, CH.rbrace, sk.idx, _skip_comments(so, str, sk.idx + 1))
    ELSE IF READ(str, sk.idx) = CH.rbrace THEN [ok |-> TRUE, brk |-> TRUE, idx |-> sk.idx]
    ELSE IF ~so.allow_missing_commas
    THEN Fail("Missing commas are not allowed", next_idx, 0)
    ELSE [ok |-> TRUE, brk |-> FALSE, idx |-> sk.idx]

\* "bail if the object is closed or we didn't get the , delimiter": the
\* comments after the value that ended at next_idx skipped to sk
ObjectDelimiter(so, str, obj_idx, next_idx, sk) ==
    IF ~sk.ok THEN sk
    ELSE IF sk.idx >= Len(str) THEN Fail("Unterminated object", obj_idx, sk.idx)
    ELSE IF READ(str, sk.idx) = CH.comma
    THEN AfterComma(so, str, CH.rbrace, sk.idx, _skip_comments(so, str, sk.idx + 1))
    ELSE IF READ(str, sk.idx) = CH.rbrace THEN [ok |-> TRUE, brk |-> TRUE, idx |-> sk.idx]
    ELSE IF sk.idx = next_idx THEN Fail("Expecting comma", next_idx, 0)
    ELSE IF ~so.allow_missing_commas
    THEN Fail("Missing commas are not allowed", next_idx, 0)
    ELSE [ok |-> TRUE, brk |-> FALSE, idx |-> sk.idx]

\* what follows a stored member, from "skip comments before } or ," to the
\* end of the loop body: break (the object is closed at idx) or continue
ObjectAfterValue(so, str, obj_idx, next_idx) ==
    ObjectDelimiter(so, str, obj_idx, next_idx, _skip_comments(so, str, next_idx))

\* the delimiter check without the test idx == comma_idx
ArrayDelimiter_NoAdjacency(so, str, arr_idx, next_idx, sk) ==
    IF ~sk.ok THEN sk
    ELSE IF sk.idx >= Len(str) THEN Fail("Unterminated array", arr_idx, sk.idx)
    ELSE IF READ(str, sk.idx) = CH.comma
    THEN AfterComma(so, str, CH.rbracket, sk.idx, _skip_comments(so, str, sk.idx + 1))
    ELSE IF READ(str, sk.idx) = CH.rbracket THEN [ok |-> TRUE, brk |-> TRUE, idx |-> sk.idx]
    ELSE IF ~so.allow_missing_commas
    THEN Fail("Missing commas are not allowed", next_idx, 0)
    ELSE [ok |-> TRUE, brk |-> FALSE, idx |-> sk.idx]

\* the same for an array
ArrayDelimiter(so, str, arr_idx, next_idx, sk) ==
    IF ~sk.ok THEN sk
    ELSE IF sk.idx >= Len(str) THEN Fail("Unterminated array", arr_idx, sk.idx)
    ELSE IF READ(str, sk.idx) = CH.comma
    THEN AfterComma(so, str, CH.rbracket, sk.idx, _skip_comments(so, str, sk.idx + 1))
    ELSE IF READ(str, sk.idx) = CH.rbracket THEN [ok |-> TRUE, brk |-> TRUE, idx |-> sk.idx]
    ELSE IF sk.idx = next_idx THEN Fail("Expecting comma", next_idx, 0)
    ELSE IF ~so.allow_missing_commas
    THEN Fail("Missing commas are not allowed", next_idx, 0)
    ELSE [ok |-> TRUE, brk |-> FALSE, idx |-> sk.idx]

ArrayAfterValue(so, str, arr_idx, next_idx) ==
    ArrayDelimiter(so, str, arr_idx, next_idx, _skip_comments(so, str, next_idx))

\* text[i, i + Len(word)) = word, as the chains of PyUnicode_READ comparisons
\* test it (they require i + Len(word) - 1 < len)
Lookahead(str, i, word) ==
    /\ i + Len(word) - 1 < Len(str)
    /\ \A k \in 1..Len(word) : READ(str, i + k - 1) = word[k]

\* the words the switch of scan_once_unicode compares the text with
WORD ==
    [null |-> <<CH.n, CH.u, CH.l, CH.l>>,
     true |-> <<CH.t, CH.r, CH.u, CH.e>>,
     false |-> <<CH.f, CH.a, CH.l, CH.s, CH.e>>,
     NaN |-> <<CH.N, CH.a, CH.N>>,
     Infinity |-> <<CH.I, CH.n, CH.f, CH.i, CH.n, CH.i, CH.t, CH.y>>,
     NegInfinity |-> <<CH.minus, CH.I, CH.n, CH.f, CH.i, CH.n, CH.i, CH.t, CH.y>>]

\* the refusal of -Infinity ranged as that of Infinity
ScanConstant_ShortRange(so, str, i) ==
    IF Lookahead(str, i, WORD.NaN) THEN
        IF ~so.allow_nan_and_infinity THEN Fail("NaN is not allowed", i, i + 3)
        ELSE [ok |-> TRUE, val |-> FloatVal("nan", <<>>), next |-> i + 3]
    ELSE IF Lookahead(str, i, WORD.Infinity) THEN
        IF ~so.allow_nan_and_infinity THEN Fail("Infinity is not allowed", i, i + 8)
        ELSE [ok |-> TRUE, val |-> FloatVal("inf", <<>>), next |-> i + 8]
    ELSE IF Lookahead(str, i, WORD.NegInfinity) THEN
        IF ~so.allow_nan_and_infinity THEN Fail("-Infinity is not allowed", i, i + 8)
        ELSE [ok |-> TRUE, val |-> FloatVal("-inf", <<>>), next |-> i + 9]
    ELSE [ok |-> FALSE, none |-> TRUE]

\* the three non-finite literals of scan_once_unicode's switch: the literal
\* at idx if there is one
ScanConstant(so, str, i) ==
    IF Lookahead(str, i, WORD.NaN) THEN
        IF ~so.allow_nan_and_infinity THEN Fail("NaN is not allowed", i, i + 3)
        ELSE [ok |-> TRUE, val |-> FloatVal("nan", <<>>), next |-> i + 3]
    ELSE IF Lookahead(str, i, WORD.Infinity) THEN
        IF ~so.allow_nan_and_infinity THEN Fail("Infinity is not allowed", i, i + 8)
        ELSE [ok |-> TRUE, val |-> FloatVal("inf", <<>>), next |-> i + 8]
    ELSE IF Lookahead(str, i, WORD.NegInfinity) THEN
        IF ~so.allow_nan_and_infinity THEN Fail("-Infinity is not allowed", i, i + 9)
        ELSE [ok |-> TRUE, val |-> FloatVal("-inf", <<>>), next |-> i + 9]
    ELSE [ok |-> FALSE, none |-> TRUE]

\* the TypeError of PyDict_SetDefault and PyDict_SetItem for a key that
\* cannot be hashed
Unhashable ==
    [ok |-> FALSE, err |-> [msg |-> "unhashable type: 'list'", start |-> -1, end |-> -1]]

\* a RecursionError left pending by a failed Py_EnterRecursiveCall
RecursionError == [ok |-> FALSE, err |-> [msg |-> "RecursionError", start |-> -1, end |-> -1]]

RECURSIVE scan_once_unicode(_, _, _, _, _)
RECURSIVE ObjectLoop(_, _, _, _, _, _, _)
RECURSIVE ArrayLoop(_, _, _, _, _, _, _)

\* the loop body after the delimiter: break with the dict, or go round
ObjectNext(so, memo, str, obj_idx, pairs, depth, after) ==
    IF ~after.ok THEN after
    ELSE IF after.brk
    THEN [ok |-> TRUE, pairs |-> pairs, idx |-> after.idx, memo |-> memo]
    ELSE ObjectLoop(so, memo, str, obj_idx, after.idx, pairs, depth)

\* the loop body after "read any JSON term": the pair is appended to the
\* list for object_hook, or stored in the dict
ObjectValue(so, str, obj_idx, pairs, depth, key, hashable, inst, v) ==
    IF ~v.ok THEN v
    ELSE IF so.object_hook = "dict" /\ ~hashable THEN Unhashable
    ELSE ObjectNext(so, v.memo, str, obj_idx,
                    IF so.object_hook # "dict"
                    THEN Append(pairs, Pair(key, inst, FALSE, v.val))
                    ELSE PyDict_SetItem(pairs, key, inst, v.val),
                    depth, ObjectAfterValue(so, str, obj_idx, v.next))

\* the loop body after the colon: col is the cursor on the value
ObjectColon(so, memo, str, obj_idx, pairs, depth, key, hashable, inst, col) ==
    IF ~col.ok THEN col
    ELSE ObjectValue(so, str, obj_idx, pairs, depth, key, hashable, inst,
                     scan_once_unicode(so, memo, str, col.idx, depth))

\* the loop body after "read key": the key read at i is interned in the memo
ObjectKey(so, memo, str, obj_idx, i, pairs, depth, k) ==
    IF ~k.ok THEN k
    ELSE IF memo.on /\ ~k.hashable THEN Unhashable
    ELSE ObjectColon(so, IF memo.on THEN MemoSetDefault(memo, k.key, i) ELSE memo,
                     str, obj_idx, pairs, depth, k.key, k.hashable,
                     IF memo.on THEN MemoInst(memo, k.key, i) ELSE i,
                     ReadColon(so, str, k.next))

\* the while (1) loop of _parse_object_unicode, entered with idx on a key;
\* depth is the number of Py_EnterRecursiveCall in effect
ObjectLoop(so, memo, str, obj_idx, i, pairs, depth) ==
    IF i >= Len(str) THEN Fail("Unterminated object", obj_idx, i)
    ELSE ObjectKey(so, memo, str, obj_idx, i, pairs, depth, ReadKey(so, str, i))

\* the dict, or the list of pairs handed to object_hook
ObjectResult(so, body) ==
    IF ~body.ok THEN body
    ELSE [ok |-> TRUE,
          val |-> IF so.object_hook # "dict" THEN PairsVal(body.pairs)
                  ELSE ObjVal(body.pairs),
          next |-> body.idx + 1, memo |-> body.memo]

\* "only loop if the object is non-empty", the comments after { skipped to sk
ObjectBody(so, memo, str, obj_idx, depth, sk) ==
    IF ~sk.ok THEN sk
    ELSE IF sk.idx >= Len(str) \/ READ(str, sk.idx) # CH.rbrace
    THEN ObjectResult(so, ObjectLoop(so, memo, str, obj_idx, sk.idx, <<>>, depth))
    ELSE ObjectResult(so, [ok |-> TRUE, pairs |-> <<>>, idx |-> sk.idx, memo |-> memo])

\* idx is the index of the first character after the opening brace
_parse_object_unicode(so, memo, str, i, depth) ==
    ObjectBody(so, memo, str, i - 1, depth, _skip_comments(so, str, i))

ArrayNext(so, memo, str, arr_idx, items, depth, after) ==
    IF ~after.ok THEN after
    ELSE IF after.brk
    THEN [ok |-> TRUE, items |-> items, idx |-> after.idx, memo |-> memo]
    ELSE ArrayLoop(so, memo, str, arr_idx, after.idx, items, depth)

\* the loop body after "read any JSON term"
ArrayValue(so, str, arr_idx, items, depth, v) ==
    IF ~v.ok THEN v
    ELSE ArrayNext(so, v.memo, str, arr_idx, Append(items, v.val), depth,
                   ArrayAfterValue(so, str, arr_idx, v.next))

\* the while (1) loop of _parse_array_unicode, entered with idx on a value
ArrayLoop(so, memo, str, arr_idx, i, items, depth) ==
    IF i >= Len(str) THEN Fail("Unterminated array", arr_idx, i)
    ELSE ArrayValue(so, str, arr_idx, items, depth,
                    scan_once_unicode(so, memo, str, i, depth))

ArrayResult(body) ==
    IF ~body.ok THEN body
    ELSE [ok |-> TRUE, val |-> ArrVal(body.items), next |-> body.idx + 1,
          memo |-> body.memo]

\* "only loop if the array is non-empty", the comments after [ skipped to sk
ArrayBody(so, memo, str, arr_idx, depth, sk) ==
    IF ~sk.ok THEN sk
    ELSE IF sk.idx >= Len(str) \/ READ(str, sk.idx) # CH.rbracket
    THEN ArrayResult(ArrayLoop(so, memo, str, arr_idx, sk.idx, <<>>, depth))
    ELSE ArrayResult([ok |-> TRUE, items |-> <<>>, idx |-> sk.idx, memo |-> memo])

_parse_array_unicode(so, memo, str, i, depth) ==
    ArrayBody(so, memo, str, i - 1, depth, _skip_comments(so, str, i))

\* after _parse_object_unicode / _parse_array_unicode returned res: a pending
\* RecursionError is replaced by the diagnostic msg at idx
ConvertRecursionError(res, msg, i) ==
    IF ~res.ok /\ res.err.msg = "RecursionError" THEN Fail(msg, i, 0) ELSE res

\* a scalar result, the memo unchanged
WithMemo(r, memo) ==
    IF r.ok THEN [ok |-> TRUE, val |-> r.val, next |-> r.next, memo |-> memo] ELSE r

\* the end of the switch: k is the non-finite literal at idx or its refusal,
\* if there is one there; "Look for a number" otherwise
ConstantOrNumber(so, memo, str, i, k) ==
    IF k.ok \/ "err" \in DOMAIN k THEN WithMemo(k, memo)
    ELSE WithMemo(_parse_number_unicode(so, str, i), memo)

scan_once_unicode(so, memo, str, i, depth) ==
    IF i >= Len(str) THEN Fail("Expecting value", i, 0)
    ELSE IF READ(str, i) = CH.quote
    THEN WithMemo(scanstring_unicode(so, str, i + 1), memo)
    ELSE IF READ(str, i) = CH.lbrace THEN
        IF depth >= so.recursion_limit THEN RecursionError
        ELSE ConvertRecursionError(_parse_object_unicode(so, memo, str, i + 1, depth + 1),
                                   "Object is too deeply nested", i)
    ELSE IF READ(str, i) = CH.lbracket THEN
        IF depth >= so.recursion_limit THEN RecursionError
        ELSE ConvertRecursionError(_parse_array_unicode(so, memo, str, i + 1, depth + 1),
                                   "Array is too deeply nested", i)
    ELSE IF Lookahead(str, i, WORD.null)
    THEN [ok |-> TRUE, val |-> NullVal, next |-> i + 4, memo |-> memo]
    ELSE IF Lookahead(str, i, WORD.true)
    THEN [ok |-> TRUE, val |-> BoolVal(TRUE), next |-> i + 4, memo |-> memo]
    ELSE IF Lookahead(str, i, WORD.false)
    THEN [ok |-> TRUE, val |-> BoolVal(FALSE), next |-> i + 5, memo |-> memo]
    ELSE ConstantOrNumber(so, memo, str, i, ScanConstant(so, str, i))

(***************************************************************************)
(* scanner_call, in three steps: the BOM check and the leading             *)
(* _skip_comments; the memo and scan_once_unicode; the trailing            *)
(* _skip_comments and the end-of-file check                                *)
(***************************************************************************)
NoVal == [t |-> "none"]

\* no encoder takes part in the call
NoEncoder == [none |-> TRUE]

\* raise_errmsg: the JSONSyntaxError becomes the result of the call
Raise(e) ==
    /\ err' = e
    /\ pc' = "done"
    /\ UNCHANGED <<idx, rval>>

\* _skip_comments returned sk: the cursor moves, or the call fails
Skipped(sk, to) ==
    IF ~sk.ok THEN Raise(sk.err)
    ELSE /\ idx' = sk.idx
         /\ pc' = to
         /\ UNCHANGED <<rval, err>>

\* scan_once_unicode returned r
Scanned(r) ==
    IF ~r.ok THEN Raise(r.err)
    ELSE /\ rval' = r.val
         /\ idx' = r.next
         /\ pc' = "tail"
         /\ err' = err

\* if (idx < len) raise "Expecting end of file"
EndOfFile(str, sk) ==
    IF sk.ok /\ sk.idx < Len(str) THEN Fail("Expecting end of file", sk.idx, 0) ELSE sk

ScannerCallBegin ==
    /\ gen = "speedups"
    /\ pc = "call"
    /\ IF Len(pystr) > 0 /\ READ(pystr, 0) = CH.bom
       THEN Raise([msg |-> "Unexpected UTF-8 BOM", start |-> 0, end |-> 1])
       ELSE Skipped(_skip_comments(s, pystr, 0), "scan")
    /\ UNCHANGED <<gen, s, encoder, obj, heap, pystr, shape, alloc>>

\* the memo of a call: PyDict_New() and, after scan_once_unicode,
\* Py_DECREF(memo); without cache_keys a new reference to None and its
\* release
MemoCounts(r, cache_keys) ==
    IF cache_keys
    THEN [r EXCEPT !.made.memo = @ + 1, !.freed.memo = @ + 1]
    ELSE r

ScannerCallScan ==
    /\ gen = "speedups"
    /\ pc = "scan"
    /\ IF s.cache_keys /\ alloc.fault = "PyDict_New"
       THEN Raise(MemoryError) /\ alloc' = alloc
       ELSE /\ Scanned(scan_once_unicode(s, IF s.cache_keys THEN NewMemo ELSE NoMemo,
                                         pystr, idx, 0))
            /\ alloc' = MemoCounts(alloc, s.cache_keys)
    /\ UNCHANGED <<gen, s, encoder, obj, heap, pystr, shape>>

ScannerCallEnd ==
    /\ gen = "speedups"
    /\ pc = "tail"
    /\ Skipped(EndOfFile(pystr, _skip_comments(s, pystr, idx)), "done")
    /\ UNCHANGED <<gen, s, encoder, obj, heap, pystr, shape, alloc>>

Next == ScannerCallBegin \/ ScannerCallScan \/ ScannerCallEnd

(***************************************************************************)
(* Inputs.  Every text is built from pieces whose class is known, and the  *)
(* shape records the pieces.                                               *)
(***************************************************************************)
\* the recursion limit of the interpreter the scanner runs in
RecursionLimit == 3

\* scanner_new with every permissive flag off
StrictScanner ==
    [allow_comments |-> FALSE, allow_missing_commas |-> FALSE,
     allow_nan_and_infinity |-> FALSE, allow_surrogates |-> FALSE,
     allow_trailing_comma |-> FALSE, allow_unquoted_keys |-> FALSE,
     cache_keys |-> FALSE, object_hook |-> "dict", str_hook |-> "str",
     recursion_limit |-> RecursionLimit]

\* the scanners that differ from StrictScanner in the flags of `flags` only
Scanners(flags) ==
    {so \in [allow_comments : BOOLEAN, allow_missing_commas : BOOLEAN,
             allow_nan_and_infinity : BOOLEAN, allow_surrogates : BOOLEAN,
             allow_trailing_comma : BOOLEAN, allow_unquoted_keys : BOOLEAN,
             cache_keys : BOOLEAN, object_hook : {"dict", "pairs"},
             str_hook : {"str", "list"}, recursion_limit : {RecursionLimit}] :
        \A f \in (DOMAIN StrictScanner) \ flags : so[f] = StrictScanner[f]}

SeqsUpTo(S, n) == UNION {[1..k -> S] : k \in 0..n}

RECURSIVE Flatten(_)
\* the concatenation of the texts of the pieces
Flatten(pieces) ==
    IF pieces = <<>> THEN <<>>
    ELSE pieces[1].text \o Flatten(Tail(pieces))

\* scanner_call about to run on text
StartScan(so, text, sh) ==
    /\ gen = "speedups"
    /\ s = so
    /\ encoder = NoEncoder
    /\ obj = NoVal
    /\ heap = <<>>
    /\ alloc = NoFault
    /\ pystr = text
    /\ shape = sh
    /\ pc = "call"
    /\ idx = 0
    /\ rval = NoVal
    /\ err = NoErr

(***************************************************************************)
(* Inputs of whitespace and comments: a prefix of whitespace and           *)
(* terminated comments, then a terminal                                    *)
(***************************************************************************)
MaxPrefix == 3

\* clen is the length of the comment inside the piece (a line comment ends
\* before the LF or CR that terminates it)
PrefixPieces ==
    { [text |-> <<CH.space>>, class |-> "ws", clen |-> 0],
      [text |-> <<CH.lf>>, class |-> "ws", clen |-> 0],
      [text |-> <<CH.tab, CH.cr>>, class |-> "ws", clen |-> 0],
      [text |-> <<CH.slash, CH.slash, CH.star, CH.lf>>, class |-> "line", clen |-> 3],
      [text |-> <<CH.slash, CH.slash, CH.cr>>, class |-> "line", clen |-> 2],
      [text |-> <<CH.slash, CH.star, CH.star, CH.slash>>, class |-> "block", clen |-> 4],
      [text |-> <<CH.slash, CH.star, CH.slash, CH.star, CH.slash>>, class |-> "block", clen |-> 5] }

\* "value": the value 1; "eof": nothing; "slash": a `/` that opens no
\* comment; "line_eof": a line comment that runs to the end of the text;
\* "unterminated": a block comment that is not closed
Terminals ==
    { [text |-> <<CH.one>>, class |-> "value"],
      [text |-> <<>>, class |-> "eof"],
      [text |-> <<CH.slash>>, class |-> "slash"],
      [text |-> <<CH.slash, CH.one>>, class |-> "slash"],
      [text |-> <<CH.slash, CH.slash, CH.one>>, class |-> "line_eof"],
      [text |-> <<CH.slash, CH.star>>, class |-> "unterminated"],
      [text |-> <<CH.slash, CH.star, CH.slash>>, class |-> "unterminated"],
      [text |-> <<CH.slash, CH.star, CH.one, CH.star>>, class |-> "unterminated"],
      [text |-> <<CH.slash, CH.star, CH.one, CH.lf, CH.slash, CH.slash>>, class |-> "unterminated"] }

InitComments ==
    \E so \in Scanners({"allow_comments"}), toks \in SeqsUpTo(PrefixPieces, MaxPrefix),
       term \in Terminals :
        StartScan(so, Flatten(toks) \o term.text,
                  [fam |-> "comments", toks |-> toks, term |-> term])

SpecComments == InitComments /\ [][Next]_scan_vars

\* the pieces of a comments input that are comments
IsCommentPiece(piece) == piece.class \in {"line", "block"}

\* the offset of piece k of a sequence of pieces
OffsetOf(pieces, k) == Len(Flatten(SubSeq(pieces, 1, k - 1)))

\* where the whitespace and terminated comments of a comments input end
CommentsCursor(sh) ==
    Len(Flatten(sh.toks)) + (IF sh.term.class = "line_eof" THEN Len(sh.term.text) ELSE 0)

\* the extent [start, end) of the first terminated comment of a comments
\* input that has one
FirstComment(sh) ==
    IF \E k \in 1..Len(sh.toks) : IsCommentPiece(sh.toks[k])
    THEN LET k == CHOOSE j \in 1..Len(sh.toks) :
                    /\ IsCommentPiece(sh.toks[j])
                    /\ \A i \in 1..(j - 1) : ~IsCommentPiece(sh.toks[i])
         IN [start |-> OffsetOf(sh.toks, k),
             end |-> OffsetOf(sh.toks, k) + sh.toks[k].clen]
    ELSE [start |-> Len(Flatten(sh.toks)), end |-> Len(Flatten(sh.toks)) + Len(sh.term.text)]

HasTerminatedComment(sh) ==
    \/ \E k \in 1..Len(sh.toks) : IsCommentPiece(sh.toks[k])
    \/ sh.term.class = "line_eof"

CommentMsgs == {"Comments are not allowed", "Unterminated comment"}

\* C6: comment policy.  With allow_comments = true the leading
\* _skip_comments consumes every mix of whitespace, line comments and
\* terminated block comments and leaves the cursor on the first character
\* that is none of these (no comment diagnostic is raised); with
\* allow_comments = false the first terminated comment met fails the scan
\* with "Comments are not allowed" ranged from its first `/` to its end, and
\* a prefix of whitespace alone is skipped.
C6_CommentPolicy ==
    (shape.fam = "comments" /\ pc # "call") =>
        IF HasTerminatedComment(shape) /\ ~s.allow_comments
        THEN /\ pc = "done"
             /\ err = [msg |-> "Comments are not allowed",
                       start |-> FirstComment(shape).start,
                       end |-> FirstComment(shape).end]
        ELSE shape.term.class # "unterminated" =>
             /\ pc = "scan" => idx = CommentsCursor(shape)
             /\ pc = "done" =>
                  /\ err.msg \notin CommentMsgs
                  /\ shape.term.class = "value" => (err = NoErr /\ rval = IntVal(1))
                  /\ shape.term.class # "value" =>
                        err = [msg |-> "Expecting value",
                               start |-> CommentsCursor(shape), end |-> 0]

\* a line comment closed by CR and a block comment were skipped
C6_Witness ==
    /\ shape.fam = "comments"
    /\ s.allow_comments
    /\ pc = "scan"
    /\ \E k \in 1..Len(shape.toks) : shape.toks[k].class = "line" /\ shape.toks[k].clen = 2
    /\ \E k \in 1..Len(shape.toks) : shape.toks[k].class = "block"
    /\ idx = Len(pystr) - 1
    /\ shape.term.class = "value"

\* a terminated block comment was refused
C6_WitnessRefused ==
    /\ shape.fam = "comments"
    /\ ~s.allow_comments
    /\ pc = "done"
    /\ err.msg = "Comments are not allowed"
    /\ err.start > 0
    /\ err.end = err.start + 5

\* the inputs whose first comment is an unterminated block comment
UnterminatedFirst(sh) ==
    /\ sh.fam = "comments"
    /\ sh.term.class = "unterminated"
    /\ \A k \in 1..Len(sh.toks) : ~IsCommentPiece(sh.toks[k])

\* C7 as stated: an unterminated block comment fails the scan with
\* "Unterminated comment", also when allow_comments is false.
C7_UnterminatedPrecedence ==
    (UnterminatedFirst(shape) /\ pc # "call") =>
        (pc = "done" /\ err.msg = "Unterminated comment")

\* C7 amended: an unterminated block comment fails the scan with a
\* diagnostic ranged from the comment's first `/` to the end of the text;
\* its message is "Unterminated comment" when allow_comments is true and
\* "Comments are not allowed" when allow_comments is false.
C7_UnterminatedByPermission ==
    (UnterminatedFirst(shape) /\ pc # "call") =>
        /\ pc = "done"
        /\ err = [msg |-> IF s.allow_comments THEN "Unterminated comment"
                          ELSE "Comments are not allowed",
                  start |-> Len(Flatten(shape.toks)),
                  end |-> Len(pystr)]

\* an unterminated block comment was met with comments not allowed
C7_Witness ==
    /\ UnterminatedFirst(shape)
    /\ ~s.allow_comments
    /\ pc = "done"
    /\ err.msg = "Comments are not allowed"
    /\ err.start > 0
    /\ err.end = Len(pystr)

(***************************************************************************)
(* Inputs of containers: an array or an object of one to MaxItems items,   *)
(* a separator between two items and a tail before the closing bracket     *)
(***************************************************************************)
MaxItems == 2

\* the values of the items
Elements ==
    { [text |-> <<CH.one>>, val |-> IntVal(1), digits |-> TRUE],
      [text |-> <<CH.quote, CH.a, CH.quote>>, val |-> StrVal(<<CH.a>>), digits |-> FALSE],
      [text |-> <<CH.lbracket, CH.rbracket>>, val |-> ArrVal(<<>>), digits |-> FALSE] }

\* what stands between two items or before the closing bracket: comma says
\* whether it holds a `,` (at cpos), cmt whether it holds a comment (at cmtpos,
\* four characters long)
CommaSeparators ==
    { [text |-> <<CH.comma>>, comma |-> TRUE, cpos |-> 0, cmt |-> FALSE, cmtpos |-> 0],
      [text |-> <<CH.space, CH.comma, CH.lf>>, comma |-> TRUE, cpos |-> 1, cmt |-> FALSE, cmtpos |-> 0],
      [text |-> <<CH.comma, CH.slash, CH.star, CH.star, CH.slash>>, comma |-> TRUE, cpos |-> 0,
       cmt |-> TRUE, cmtpos |-> 1] }

GapSeparators ==
    { [text |-> <<CH.space>>, comma |-> FALSE, cpos |-> 0, cmt |-> FALSE, cmtpos |-> 0],
      [text |-> <<CH.slash, CH.star, CH.star, CH.slash>>, comma |-> FALSE, cpos |-> 0,
       cmt |-> TRUE, cmtpos |-> 0] }

NoSeparator == [text |-> <<>>, comma |-> FALSE, cpos |-> 0, cmt |-> FALSE, cmtpos |-> 0]

Separators == CommaSeparators \cup GapSeparators \cup {NoSeparator}

\* the key of item k of an object: "a", "b", ...
KeyOfItem(k) == <<CH.a + k - 1>>

\* the text of item k: its value, after its key and a colon in an object
ItemPiece(sh, k) ==
    [text |-> IF sh.kind = "object"
              THEN <<CH.quote>> \o KeyOfItem(k) \o <<CH.quote, CH.colon>> \o sh.items[k].text
              ELSE sh.items[k].text]

Bracket(c) == [text |-> <<c>>]

\* the pieces of a container input: the opening bracket, then each item
\* (piece 2k) followed by its separator or by the tail (piece 2k + 1), then
\* the closing bracket
ContainerPieces(sh) ==
    [p \in 1..(2 * Len(sh.items) + 2) |->
        IF p = 1 THEN Bracket(IF sh.kind = "object" THEN CH.lbrace ELSE CH.lbracket)
        ELSE IF p = 2 * Len(sh.items) + 2
        THEN Bracket(IF sh.kind = "object" THEN CH.rbrace ELSE CH.rbracket)
        ELSE IF p = 2 * Len(sh.items) + 1 THEN sh.tail
        ELSE IF p % 2 = 0 THEN ItemPiece(sh, p \div 2)
        ELSE sh.seps[p \div 2]]

\* two items that are both runs of digits, with nothing between them, are
\* one number: such a shape is not a container of these items
Glued(sh) ==
    \E k \in 1..Len(sh.seps) :
        sh.seps[k].text = <<>> /\ sh.items[k].digits /\ sh.items[k + 1].digits
        /\ sh.kind = "array"

ContainerShapes ==
    {sh \in UNION {[fam : {"container"}, kind : {"array", "object"},
                    items : [1..n -> Elements], seps : [1..(n - 1) -> Separators],
                    tail : Separators] : n \in 1..MaxItems} : ~Glued(sh)}

InitContainers ==
    \E so \in Scanners({"allow_comments", "allow_missing_commas", "allow_trailing_comma"}),
       sh \in ContainerShapes :
        StartScan(so, Flatten(ContainerPieces(sh)), sh)

SpecContainers == InitContainers /\ [][Next]_scan_vars

\* the C index at which item k of a container input ends: where its
\* separator (or the tail) starts
ItemEnd(sh, k) == OffsetOf(ContainerPieces(sh), 2 * k + 1)

\* the separator after item k: sh.seps[k], or the tail after the last item
SeparatorAfter(sh, k) == IF k = Len(sh.items) THEN sh.tail ELSE sh.seps[k]

NoProblem == [msg |-> "", start |-> 0, end |-> 0]

\* what the grammar of the scanner so finds wrong with the separator after
\* item k of a container input, if anything
SeparatorProblem(sh, so, k) ==
    LET sp == SeparatorAfter(sh, k)
        at == ItemEnd(sh, k)
    IN
    IF sp.cmt /\ ~so.allow_comments
    THEN [msg |-> "Comments are not allowed", start |-> at + sp.cmtpos,
          end |-> at + sp.cmtpos + 4]
    ELSE IF k = Len(sh.items)
    THEN IF sp.comma /\ ~so.allow_trailing_comma
         THEN [msg |-> "Trailing comma is not allowed", start |-> at + sp.cpos,
               end |-> at + sp.cpos + 1]
         ELSE NoProblem
    ELSE IF sp.comma THEN NoProblem
    ELSE IF sp.text = <<>> THEN [msg |-> "Expecting comma", start |-> at, end |-> 0]
    ELSE IF ~so.allow_missing_commas
    THEN [msg |-> "Missing commas are not allowed", start |-> at, end |-> 0]
    ELSE NoProblem

\* the separators after items 1..k raise no problem
CleanUpTo(sh, so, k) == \A j \in 1..k : SeparatorProblem(sh, so, j) = NoProblem

\* the value a container input denotes: its items, in order; the key object
\* of item k is the one read at the start of the item
ContainerValue(sh) ==
    IF sh.kind = "array"
    THEN ArrVal([k \in 1..Len(sh.items) |-> sh.items[k].val])
    ELSE ObjVal([k \in 1..Len(sh.items) |->
                    Pair(KeyOfItem(k), OffsetOf(ContainerPieces(sh), 2 * k), FALSE,
                         sh.items[k].val)])

\* C3: trailing comma, for arrays and objects alike.  When a `,` is followed
\* (after whitespace or comments) by the closing bracket of the container,
\* the scan fails with "Trailing comma is not allowed" ranged (comma,
\* comma + 1) iff allow_trailing_comma is false; when the flag is true the
\* container closes and holds exactly the items read before that comma.
C3_TrailingComma ==
    (shape.fam = "container" /\ pc = "done") =>
        /\ (shape.tail.comma /\ CleanUpTo(shape, s, Len(shape.items) - 1)
            /\ (shape.tail.cmt => s.allow_comments)) =>
              IF s.allow_trailing_comma
              THEN err = NoErr /\ rval = ContainerValue(shape)
              ELSE err = [msg |-> "Trailing comma is not allowed",
                          start |-> ItemEnd(shape, Len(shape.items)) + shape.tail.cpos,
                          end |-> ItemEnd(shape, Len(shape.items)) + shape.tail.cpos + 1]
        /\ err.msg = "Trailing comma is not allowed" =>
              (shape.tail.comma /\ ~s.allow_trailing_comma)

\* an object closed after a trailing comma, with both its members
C3_Witness ==
    /\ shape.fam = "container"
    /\ shape.kind = "object"
    /\ pc = "done"
    /\ shape.tail.comma
    /\ shape.tail.cpos = 1
    /\ s.allow_trailing_comma
    /\ err = NoErr
    /\ rval.t = "obj"
    /\ Len(rval.pairs) = 2

\* the trailing comma of an array was refused
C3_WitnessRefused ==
    /\ shape.fam = "container"
    /\ shape.kind = "array"
    /\ pc = "done"
    /\ ~s.allow_trailing_comma
    /\ err.msg = "Trailing comma is not allowed"
    /\ err.end = err.start + 1
    /\ READ(pystr, err.start) = CH.comma

\* container inputs whose item k is the first not followed by a `,`, with
\* nothing wrong before it and no refused comment after it
MissingCommaAfter(sh, so, k) ==
    /\ sh.fam = "container"
    /\ k < Len(sh.items)
    /\ ~sh.seps[k].comma
    /\ CleanUpTo(sh, so, k - 1)
    /\ \A j \in 1..(k - 1) : sh.seps[j].comma
    /\ sh.seps[k].cmt => so.allow_comments

\* C4: missing commas, for arrays and objects alike.  After an item, if the
\* next token is neither `,` nor the closing bracket: (a) if nothing
\* separates it from the end of the item the scan fails with "Expecting
\* comma" whatever allow_missing_commas is; (b) otherwise the scan fails with
\* "Missing commas are not allowed" iff the flag is false, and goes on with
\* the next item iff it is true (then what it reports, if anything, lies
\* after that item, and the container holds every item if nothing else is
\* wrong).
C4_MissingComma ==
    \A k \in 1..MaxItems :
        (pc = "done" /\ MissingCommaAfter(shape, s, k)) =>
            IF shape.seps[k].text = <<>>
            THEN err = [msg |-> "Expecting comma", start |-> ItemEnd(shape, k), end |-> 0]
            ELSE IF ~s.allow_missing_commas
            THEN err = [msg |-> "Missing commas are not allowed",
                        start |-> ItemEnd(shape, k), end |-> 0]
            ELSE /\ err.msg \notin {"Missing commas are not allowed", "Expecting comma"}
                    \/ err.start > ItemEnd(shape, k)
                 /\ CleanUpTo(shape, s, Len(shape.items)) =>
                        (err = NoErr /\ rval = ContainerValue(shape))
                 /\ err # NoErr =>
                        \E j \in (k + 1)..Len(shape.items) :
                            err = SeparatorProblem(shape, s, j)

\* an array whose two items only a space separates was read
C4_Witness ==
    /\ shape.fam = "container"
    /\ shape.kind = "array"
    /\ pc = "done"
    /\ Len(shape.items) = 2
    /\ shape.seps[1] \in GapSeparators
    /\ s.allow_missing_commas
    /\ err = NoErr
    /\ Len(rval.items) = 2

\* two members of an object with nothing between them
C4_WitnessAdjacent ==
    /\ shape.fam = "container"
    /\ shape.kind = "object"
    /\ pc = "done"
    /\ Len(shape.items) = 2
    /\ shape.seps[1] = NoSeparator
    /\ s.allow_missing_commas
    /\ err.msg = "Expecting comma"

(***************************************************************************)
(* Inputs of object keys: an object whose first or second key is a run of  *)
(* one to MaxKeyLen characters of KeyAlphabet, unquoted                    *)
(***************************************************************************)
MaxKeyLen == 2

\* a letter, `_`, a digit, a letter above 0x7F (e-acute), a code point above
\* 0x7F that no identifier holds (the multiplication sign), and `-`
KeyAlphabet == {CH.a, CH.underscore, CH.one, 233, 215, CH.minus}

\* what the Unicode database says of them
IdentifierStarts == {CH.a, CH.underscore, 233}
IdentifierParts == {CH.a, CH.underscore, CH.one, 233}
\* the characters the claim lets a key start with: a letter, `_`, above 0x7F
KeyStarts == {CH.a, CH.underscore, 233, 215}

KeyShapes ==
    [fam : {"key"}, key : SeqsUpTo(KeyAlphabet, MaxKeyLen) \ {<<>>},
     second : BOOLEAN, spaced : BOOLEAN]

\* the text before the key, the key, the text after it
KeyPieces(sh) ==
    << [text |-> <<CH.lbrace>>
                 \o (IF sh.second
                     THEN <<CH.quote, CH.z, CH.quote, CH.colon, CH.zero, CH.comma>>
                     ELSE <<>>)
                 \o (IF sh.spaced THEN <<CH.space>> ELSE <<>>)],
       [text |-> sh.key],
       [text |-> (IF sh.spaced THEN <<CH.space>> ELSE <<>>)
                 \o <<CH.colon, CH.one, CH.rbrace>>] >>

InitKeys ==
    \E so \in Scanners({"allow_unquoted_keys", "cache_keys"}), sh \in KeyShapes :
        StartScan(so, Flatten(KeyPieces(sh)), sh)

SpecKeys == InitKeys /\ [][Next]_scan_vars

\* the C index of the key of a key input
KeyAt(sh) == OffsetOf(KeyPieces(sh), 2)

\* the length of the run of letters, digits, `_` and code points above 0x7F
\* the key starts with: the identifier ends where `-` stands
KeyTokenLen(key) == FirstIndexOf(key, {CH.minus}) - 1

IsIdentifierText(txt) ==
    /\ txt # <<>>
    /\ txt[1] \in IdentifierStarts
    /\ \A k \in 2..Len(txt) : txt[k] \in IdentifierParts

\* the object a key input denotes when its whole key is an identifier
KeyValue(sh) ==
    ObjVal((IF sh.second THEN <<Pair(<<CH.z>>, 1, FALSE, IntVal(0))>> ELSE <<>>)
           \o <<Pair(sh.key, KeyAt(sh), FALSE, IntVal(1))>>)

\* C5: unquoted keys.  A key that starts with a letter, `_` or a code point
\* above 0x7F and forms a valid identifier is accepted as that text iff
\* allow_unquoted_keys is true; when the flag is false the scan fails with
\* "Unquoted keys are not allowed" ranged over exactly the identifier
\* [idx, next_idx).  A key position holding neither `"` nor an identifier
\* start fails with "Expecting key" whatever the flag is.
C5_UnquotedKeys ==
    (shape.fam = "key" /\ pc = "done") =>
        LET tok == SubSeq(shape.key, 1, KeyTokenLen(shape.key)) IN
        /\ (shape.key[1] \in KeyStarts /\ IsIdentifierText(tok)) =>
              IF ~s.allow_unquoted_keys
              THEN err = [msg |-> "Unquoted keys are not allowed",
                          start |-> KeyAt(shape), end |-> KeyAt(shape) + Len(tok)]
              ELSE IF tok = shape.key
              THEN err = NoErr /\ rval = KeyValue(shape)
              ELSE err = [msg |-> "Expecting colon",
                          start |-> KeyAt(shape) + Len(tok), end |-> 0]
        /\ shape.key[1] \notin KeyStarts =>
              err = [msg |-> "Expecting key", start |-> KeyAt(shape), end |-> 0]
        /\ err.msg = "Unquoted keys are not allowed" => ~s.allow_unquoted_keys

\* the key e-acute followed by `_`, unquoted, was accepted as the second key
C5_Witness ==
    /\ shape.fam = "key"
    /\ pc = "done"
    /\ s.allow_unquoted_keys
    /\ shape.second
    /\ shape.key = <<233, CH.underscore>>
    /\ err = NoErr
    /\ rval.pairs[2].key = <<233, CH.underscore>>

\* an identifier that ends before a `-` was refused over its own extent
C5_WitnessRefused ==
    /\ shape.fam = "key"
    /\ pc = "done"
    /\ ~s.allow_unquoted_keys
    /\ shape.key = <<CH.a, CH.minus>>
    /\ err.msg = "Unquoted keys are not allowed"
    /\ err.end = err.start + 1

(***************************************************************************)
(* Inputs of number literals: a literal inside up to MaxNest arrays,       *)
(* possibly as the value of an object member or after another item         *)
(***************************************************************************)
MaxNest == 2

\* class: what the literal denotes.  "overflow" and "-overflow" are number
\* literals the grammar accepts whose binary64 conversion overflows;
\* "broken" is the start of a literal, which is no value
Literals ==
    { [text |-> WORD.NaN, class |-> "nan"],
      [text |-> WORD.Infinity, class |-> "inf"],
      [text |-> WORD.NegInfinity, class |-> "-inf"],
      [text |-> <<CH.one, CH.e, CH.nine, CH.nine, CH.nine>>, class |-> "overflow"],
      [text |-> <<CH.minus, CH.nine, CH.dot, CH.zero, CH.E, CH.plus, CH.nine, CH.nine, CH.nine>>,
       class |-> "-overflow"],
      [text |-> <<CH.zero, CH.dot, CH.one, CH.e, CH.three, CH.one, CH.zero>>, class |-> "overflow"],
      [text |-> <<CH.one, CH.e, CH.three, CH.zero, CH.eight>>, class |-> "finite"],
      [text |-> <<CH.zero, CH.dot, CH.zero, CH.e, CH.nine, CH.nine, CH.nine>>, class |-> "finite"],
      [text |-> <<CH.minus, CH.one, CH.dot, CH.nine, CH.e, CH.minus, CH.nine>>, class |-> "finite"],
      [text |-> <<CH.one, CH.nine>>, class |-> "int"],
      [text |-> <<CH.N, CH.a>>, class |-> "broken"],
      [text |-> <<CH.I, CH.n, CH.f, CH.i, CH.n, CH.i, CH.t>>, class |-> "broken"],
      [text |-> <<CH.minus, CH.I, CH.n, CH.f>>, class |-> "broken"] }

LiteralShapes ==
    {sh \in [fam : {"literal"}, lit : Literals, nest : 0..MaxNest,
             inobj : BOOLEAN, after : BOOLEAN] :
        sh.after => (sh.nest > 0 /\ ~sh.inobj)}

\* nest opening brackets, or nest closing brackets
Brackets(c, nest) == [k \in 1..nest |-> c]

LiteralPieces(sh) ==
    << [text |-> Brackets(CH.lbracket, sh.nest)
                 \o (IF sh.inobj THEN <<CH.lbrace, CH.quote, CH.a, CH.quote, CH.colon>>
                     ELSE <<>>)
                 \o (IF sh.after THEN <<CH.zero, CH.comma>> ELSE <<>>)],
       sh.lit,
       [text |-> (IF sh.inobj THEN <<CH.rbrace>> ELSE <<>>)
                 \o Brackets(CH.rbracket, sh.nest)] >>

InitLiterals ==
    \E so \in Scanners({"allow_nan_and_infinity", "cache_keys"}), sh \in LiteralShapes :
        StartScan(so, Flatten(LiteralPieces(sh)), sh)

SpecLiterals == InitLiterals /\ [][Next]_scan_vars

\* the C index of the literal of a literal input
LiteralAt(sh) == OffsetOf(LiteralPieces(sh), 2)

RECURSIVE InArrays(_, _)
\* v inside nest arrays
InArrays(v, nest) == IF nest = 0 THEN v ELSE ArrVal(<<InArrays(v, nest - 1)>>)

\* the value a literal input denotes when its literal denotes v
LiteralValue(sh, v) ==
    IF sh.inobj
    THEN InArrays(ObjVal(<<Pair(<<CH.a>>, sh.nest + 1, FALSE, v)>>), sh.nest)
    ELSE IF sh.after
    THEN InArrays(ArrVal(<<IntVal(0), v>>), sh.nest - 1)
    ELSE InArrays(v, sh.nest)

NonFiniteClasses == {"nan", "inf", "-inf"}

\* the message that refuses a non-finite literal
NotAllowedMsg(class) ==
    CASE class = "nan" -> "NaN is not allowed"
      [] class = "inf" -> "Infinity is not allowed"
      [] class = "-inf" -> "-Infinity is not allowed"

\* C8: the literals NaN, Infinity and -Infinity are accepted only if
\* allow_nan_and_infinity is true; otherwise the scan fails with "NaN is not
\* allowed", "Infinity is not allowed" or "-Infinity is not allowed", ranged
\* [idx, idx + 3), [idx, idx + 8), [idx, idx + 9): exactly the literal.
C8_NonFiniteLiterals ==
    (shape.fam = "literal" /\ pc = "done") =>
        /\ shape.lit.class \in NonFiniteClasses =>
              IF s.allow_nan_and_infinity
              THEN /\ err = NoErr
                   /\ rval = LiteralValue(shape, FloatVal(shape.lit.class, <<>>))
              ELSE err = [msg |-> NotAllowedMsg(shape.lit.class),
                          start |-> LiteralAt(shape),
                          end |-> LiteralAt(shape) + Len(shape.lit.text)]
        /\ shape.lit.class = "broken" =>
              err = [msg |-> "Expecting value", start |-> LiteralAt(shape), end |-> 0]
        /\ err.msg \in {"NaN is not allowed", "Infinity is not allowed",
                        "-Infinity is not allowed"} =>
              (~s.allow_nan_and_infinity /\ shape.lit.class \in NonFiniteClasses)

\* -Infinity was refused inside an object inside an array
C8_Witness ==
    /\ shape.fam = "literal"
    /\ pc = "done"
    /\ shape.lit.class = "-inf"
    /\ shape.inobj
    /\ shape.nest > 0
    /\ ~s.allow_nan_and_infinity
    /\ err.msg = "-Infinity is not allowed"
    /\ err.end = err.start + 9

\* NaN was accepted as the second item of an array
C8_WitnessAccepted ==
    /\ shape.fam = "literal"
    /\ pc = "done"
    /\ shape.lit.class = "nan"
    /\ shape.after
    /\ s.allow_nan_and_infinity
    /\ err = NoErr
    /\ rval.items[2] = FloatVal("nan", <<>>)

RECURSIVE HasNonFinite(_)
\* whether a value tree holds a non-finite Float
HasNonFinite(v) ==
    IF v.t = "float" THEN v.kind # "finite"
    ELSE IF v.t = "arr" THEN \E k \in 1..Len(v.items) : HasNonFinite(v.items[k])
    ELSE IF v.t \in {"obj", "pairs"}
    THEN \E k \in 1..Len(v.pairs) : HasNonFinite(v.pairs[k].val)
    ELSE FALSE

\* C9: with allow_nan_and_infinity = false the scanner never returns a tree
\* that holds a non-finite Float, for every input: a number literal whose
\* binary64 conversion overflows is refused with a diagnostic.
C9_NoNonFiniteFloat ==
    (shape.fam = "literal" /\ pc = "done" /\ ~s.allow_nan_and_infinity) =>
        /\ err = NoErr => ~HasNonFinite(rval)
        /\ shape.lit.class \in {"overflow", "-overflow"} => err # NoErr

(***************************************************************************)
(* Inputs of strings: a string literal of one to MaxTokens tokens          *)
(***************************************************************************)
MaxTokens == 3

\* "plain": a character; "high", "low": the \uXXXX escape of a surrogate;
\* "bmp": the \uXXXX escape of another code point; "char": a one-letter
\* escape; "nohex": `\u` not followed by four hex digits; "raw": a surrogate
\* code point that stands unescaped in the text.  c is the code point the
\* token denotes.
StringTokens ==
    { [text |-> <<CH.z>>, class |-> "plain", c |-> CH.z],
      [text |-> <<CH.backslash, CH.u, CH.d, CH.eight, CH.three, CH.d>>,
       class |-> "high", c |-> 55357],
      [text |-> <<CH.backslash, CH.u, CH.D, CH.E, CH.zero, CH.zero>>,
       class |-> "low", c |-> 56832],
      [text |-> <<CH.backslash, CH.u, CH.zero, CH.zero, CH.e, CH.nine>>,
       class |-> "bmp", c |-> 233],
      [text |-> <<CH.backslash, CH.n>>, class |-> "char", c |-> CH.lf],
      [text |-> <<CH.backslash, CH.u, CH.one>>, class |-> "nohex", c |-> 0],
      [text |-> <<55357>>, class |-> "raw", c |-> 55357] }

StringShapes ==
    [fam : {"string"}, toks : SeqsUpTo(StringTokens, MaxTokens) \ {<<>>}]

Quote == [text |-> <<CH.quote>>]

StringPieces(sh) == <<Quote>> \o sh.toks \o <<Quote>>

InitStrings ==
    \E so \in Scanners({"allow_surrogates"}), sh \in StringShapes :
        StartScan(so, Flatten(StringPieces(sh)), sh)

SpecStrings == InitStrings /\ [][Next]_scan_vars

\* the C index of token k of a string input
TokenAt(sh, k) == OffsetOf(StringPieces(sh), k + 1)

\* token k is the high half of a surrogate pair: a "low" follows it
PairedHigh(toks, k) ==
    toks[k].class = "high" /\ k < Len(toks) /\ toks[k + 1].class = "low"

\* token k is the low half of a surrogate pair
PairedLow(toks, k) == k > 1 /\ PairedHigh(toks, k - 1)

\* token k is the escape of a surrogate that has no partner
UnpairedEscape(toks, k) ==
    \/ toks[k].class = "high" /\ ~PairedHigh(toks, k)
    \/ toks[k].class = "low" /\ ~PairedLow(toks, k)

RECURSIVE TokenChars(_, _)
\* the code points tokens k.. denote: a pair is one supplementary code point
TokenChars(toks, k) ==
    IF k > Len(toks) THEN <<>>
    ELSE IF PairedHigh(toks, k)
    THEN <<65536 + (toks[k].c - 55296) * 1024 + (toks[k + 1].c - 56320)>>
         \o TokenChars(toks, k + 2)
    ELSE <<toks[k].c>> \o TokenChars(toks, k + 1)

IsSurrogate(c) == c >= 55296 /\ c <= 57343

\* the first token of a string input that the scanner so cannot accept, or
\* Len + 1: an escape without hex digits, or (surrogates not allowed) the
\* escape of an unpaired surrogate
FirstBadToken(sh, so) ==
    LET bad == {k \in 1..Len(sh.toks) :
                    \/ sh.toks[k].class = "nohex"
                    \/ ~so.allow_surrogates /\ UnpairedEscape(sh.toks, k)}
    IN IF bad = {} THEN Len(sh.toks) + 1
       ELSE CHOOSE k \in bad : \A j \in bad : k <= j

SurrogateRefusal(sh, k) ==
    [msg |-> "Surrogates are not allowed", start |-> TokenAt(sh, k),
     end |-> TokenAt(sh, k) + 6]

NoHexRefusal(sh, k) ==
    [msg |-> "Expecting 4 hex digits", start |-> TokenAt(sh, k) + 2, end |-> 0 - 4]

\* token k is a high surrogate escape followed by `\u` without four hex digits
HighBeforeNoHex(toks, k) ==
    toks[k].class = "high" /\ k < Len(toks) /\ toks[k + 1].class = "nohex"

\* C10 as stated (an escape without four hex digits is no escape, and what
\* follows it is not judged): a high surrogate escape immediately followed by a low
\* surrogate escape is decoded to the single supplementary code point; with
\* allow_surrogates = false every unpaired surrogate escape fails the scan
\* with "Surrogates are not allowed" ranged over the six characters of that
\* escape, so that no successful scan returns a string that holds a code
\* point in U+D800..U+DFFF.
C10_SurrogatePolicy ==
    (shape.fam = "string" /\ pc = "done") =>
        LET k == FirstBadToken(shape, s) IN
        /\ k > Len(shape.toks) => (err = NoErr /\ rval = StrVal(TokenChars(shape.toks, 1)))
        /\ (k <= Len(shape.toks) /\ shape.toks[k].class # "nohex"
                /\ ~HighBeforeNoHex(shape.toks, k)) =>
              err = SurrogateRefusal(shape, k)
        /\ (~s.allow_surrogates /\ err = NoErr) =>
              \A j \in 1..Len(rval.chars) : ~IsSurrogate(rval.chars[j])

\* C10, the part scanstring_unicode keeps: a high surrogate escape immediately followed by a low
\* surrogate escape is decoded to the single supplementary code point; with
\* allow_surrogates = false every unpaired surrogate escape fails the scan
\* with "Surrogates are not allowed" ranged over the six characters of that
\* escape, except a high surrogate escape that is followed by `\u` without
\* four hex digits, which fails with "Expecting 4 hex digits" at that second
\* escape; so no successful scan returns a string that holds a surrogate
\* written as an escape (a surrogate code point that stands unescaped in the
\* text is copied to the result).
C10_SurrogateEscapePolicy ==
    (shape.fam = "string" /\ pc = "done") =>
        LET k == FirstBadToken(shape, s) IN
        /\ k > Len(shape.toks) => (err = NoErr /\ rval = StrVal(TokenChars(shape.toks, 1)))
        /\ (k <= Len(shape.toks) /\ shape.toks[k].class # "nohex") =>
              IF HighBeforeNoHex(shape.toks, k)
              THEN err = NoHexRefusal(shape, k + 1)
              ELSE err = SurrogateRefusal(shape, k)
        /\ (k <= Len(shape.toks) /\ shape.toks[k].class = "nohex") =>
              err = NoHexRefusal(shape, k)
        /\ (~s.allow_surrogates /\ err = NoErr) =>
              Cardinality({j \in 1..Len(rval.chars) : IsSurrogate(rval.chars[j])})
                = Cardinality({j \in 1..Len(shape.toks) : shape.toks[j].class = "raw"})

\* a surrogate that stood unescaped in the text was returned although
\* surrogates are not allowed
C10_WitnessRaw ==
    /\ shape.fam = "string"
    /\ pc = "done"
    /\ ~s.allow_surrogates
    /\ err = NoErr
    /\ \E j \in 1..Len(rval.chars) : IsSurrogate(rval.chars[j])

\* a pair was joined, and then a lone low surrogate escape was refused
C10_Witness ==
    /\ shape.fam = "string"
    /\ pc = "done"
    /\ ~s.allow_surrogates
    /\ Len(shape.toks) = 3
    /\ PairedHigh(shape.toks, 1)
    /\ shape.toks[3].class = "low"
    /\ err = SurrogateRefusal(shape, 3)

\* a pair was decoded to one supplementary code point
C10_WitnessPair ==
    /\ shape.fam = "string"
    /\ pc = "done"
    /\ ~s.allow_surrogates
    /\ err = NoErr
    /\ rval = StrVal(<<CH.z, 128512>>)

(***************************************************************************)
(* The scanner of _accelerator.c, the generation that has                  *)
(* allow_duplicate_keys.  Its raise_errmsg(msg, ..., end) takes one        *)
(* offset, kept in the field start of the error (end is 0).                *)
(***************************************************************************)
acc_raise_errmsg(msg, end) == [ok |-> FALSE, err |-> [msg |-> msg, start |-> end, end |-> 0]]

RECURSIVE acc_LineCommentEnd(_, _)
\* while (idx < len && str[idx] != '\n') idx++
acc_LineCommentEnd(str, i) ==
    IF i < Len(str) /\ READ(str, i) # CH.lf THEN acc_LineCommentEnd(str, i + 1) ELSE i

RECURSIVE acc_skip_comments(_, _, _)
\* the block comment opened at comment_idx, its inner loop ended at k
acc_BlockComment(so, str, comment_idx, k) ==
    IF k < 0 THEN acc_raise_errmsg("Unterminated comment", comment_idx)
    ELSE acc_skip_comments(so, str, k + 2)

acc_skip_comments(so, str, i) ==
    IF i < Len(str) /\ READ(str, i) \in {CH.space, CH.tab, CH.lf, CH.cr}
    THEN acc_skip_comments(so, str, i + 1)
    ELSE IF i + 1 < Len(str) /\ READ(str, i) = CH.slash
            /\ READ(str, i + 1) \in {CH.slash, CH.star}
    THEN IF ~so.allow_comments THEN acc_raise_errmsg("Comments are not allowed", i)
         ELSE IF READ(str, i + 1) = CH.slash
         THEN acc_skip_comments(so, str, acc_LineCommentEnd(str, i + 2))
         ELSE acc_BlockComment(so, str, i, BlockCommentEnd(str, i + 2))
    ELSE [ok |-> TRUE, idx |-> i]

\* the second \uXXXX after a high surrogate c, decoded to c2 with end moved
\* past it (c2 < 0: not four hex digits): joined, or end -= 6
acc_SecondSurrogate(c, end, c2) ==
    IF c2 < 0 THEN acc_raise_errmsg("Expecting 4 hex digits", end - 4)
    ELSE IF IsLowSurrogate(c2)
    THEN [ok |-> TRUE, c |-> JoinSurrogates(c, c2), end |-> end]
    ELSE [ok |-> TRUE, c |-> c, end |-> end - 6]

\* a \uXXXX escape whose digits, ending at end, decode to c
acc_UnicodeEscape(str, end, c) ==
    IF c < 0 THEN acc_raise_errmsg("Expecting 4 hex digits", end - 4)
    ELSE IF IsHighSurrogate(c) /\ end + 6 < Len(str)
            /\ READ(str, end) = CH.backslash /\ READ(str, end + 1) = CH.u
    THEN acc_SecondSurrogate(c, end + 6, Decode4Hex(str, end + 2))
    ELSE [ok |-> TRUE, c |-> c, end |-> end]

\* one backslash escape; next is the index of the character after the `\`
acc_ScanEscape(str, next) ==
    IF next = Len(str) THEN acc_raise_errmsg("Expecting escaped character", next)
    ELSE IF READ(str, next) = CH.u
    THEN IF next + 1 + 4 > Len(str)
         THEN acc_raise_errmsg("Expecting 4 hex digits", next + 1)
         ELSE acc_UnicodeEscape(str, next + 1 + 4, Decode4Hex(str, next + 1))
    ELSE IF READ(str, next) = CH.lf
    THEN acc_raise_errmsg("Expecting escaped character", next)
    ELSE IF SimpleEscape(READ(str, next)) <= 0
    THEN acc_raise_errmsg("Invalid backslash escape", next)
    ELSE [ok |-> TRUE, c |-> SimpleEscape(READ(str, next)), end |-> next + 1]

RECURSIVE acc_scanstring_loop(_, _, _, _, _)

\* after an escape was read: write its character and go round the loop
acc_scanstring_escaped(str, begin, buf, esc) ==
    IF ~esc.ok THEN esc
    ELSE acc_scanstring_loop(str, begin, esc.end, Append(buf, esc.c), TRUE)

\* one round of the while (1) loop, the chunk [end, next) found
acc_scanstring_round(str, begin, end, buf, buffered, next) ==
    IF next < Len(str) /\ READ(str, next) <= 31 THEN
        IF READ(str, next) = CH.lf
        THEN acc_raise_errmsg("Unterminated string", begin)
        ELSE acc_raise_errmsg("Unescaped control character", next)
    ELSE IF next >= Len(str) THEN acc_raise_errmsg("Unterminated string", begin)
    ELSE IF READ(str, next) = CH.quote
    THEN [ok |-> TRUE,
          val |-> StrVal(IF buffered THEN buf \o Substring(str, end, next)
                         ELSE Substring(str, end, next)),
          next |-> next + 1]
    ELSE acc_scanstring_escaped(str, begin, buf \o Substring(str, end, next),
                                acc_ScanEscape(str, next + 1))

acc_scanstring_loop(str, begin, end, buf, buffered) ==
    acc_scanstring_round(str, begin, end, buf, buffered, FindChunkEnd(str, end))

\* end is the index of the first character after the opening quote
acc_scanstring_unicode(str, end) == acc_scanstring_loop(str, end - 1, end, <<>>, FALSE)

\* the conversion at the end of _match_number_unicode: a float that is not
\* finite is refused (the statements that match the literal are those of
\* the later generation, with end_idx = len - 1)
acc_ConvertNumber(str, start, m) ==
    IF ~m.ok THEN acc_raise_errmsg("Expecting value", start)
    ELSE IF m.is_float /\ PyFloat_FromString(Substring(str, start, m.idx)).kind # "finite"
    THEN acc_raise_errmsg("Number is too large", start)
    ELSE ConvertNumber(str, start, m)

acc_match_number_unicode(str, start) ==
    acc_ConvertNumber(str, start, _match_number_unicode(str, start))

\* PyDict_Contains(rval, key) for a str key: a DuplicateKey hashes by its
\* address (duplicatekey_hash), so only a plain key of the same text is found
acc_PyDict_Contains(pairs, key) ==
    \E k \in 1..Len(pairs) : ~pairs[k].dup /\ pairs[k].key = key

\* the key wrapped without the test of the dict
acc_NewKey_NeverWrapped(so, memo, pairs, key, i) ==
    [ok |-> TRUE, inst |-> MemoInst(memo, key, i), dup |-> FALSE,
     memo |-> MemoSetDefault(memo, key, i)]

\* the key object stored for the key text read at i: the interned text, or a
\* new DuplicateKey
acc_NewKey(so, memo, pairs, key, i) ==
    IF ~acc_PyDict_Contains(pairs, key)
    THEN [ok |-> TRUE, inst |-> MemoInst(memo, key, i), dup |-> FALSE,
          memo |-> MemoSetDefault(memo, key, i)]
    ELSE IF ~so.allow_duplicate_keys
    THEN acc_raise_errmsg("Duplicate keys are not allowed", i)
    ELSE [ok |-> TRUE, inst |-> i, dup |-> TRUE, memo |-> memo]

\* PyDict_SetItem(rval, key, val) with the key object nk: a DuplicateKey is
\* a new entry, a plain key is stored as PyDict_SetItem stores it
acc_PyDict_SetItem(pairs, key, nk, val) ==
    IF nk.dup THEN Append(pairs, Pair(key, nk.inst, TRUE, val))
    ELSE PyDict_SetItem(pairs, key, nk.inst, val)

\* what follows a `,` at comma_idx, the comments after it skipped to sk
acc_AfterComma(so, str, close, comma_idx, sk) ==
    IF ~sk.ok THEN sk
    ELSE IF sk.idx < Len(str) /\ READ(str, sk.idx) = close
    THEN IF so.allow_trailing_comma THEN [ok |-> TRUE, brk |-> TRUE, idx |-> sk.idx]
         ELSE acc_raise_errmsg("Trailing comma is not allowed", comma_idx)
    ELSE [ok |-> TRUE, brk |-> FALSE, idx |-> sk.idx]

\* "bail if the container is closed or we didn't get the , delimiter", the
\* comments after the value that ended at comma_idx skipped to sk
acc_Delimiter(so, str, close, comma_idx, sk) ==
    IF ~sk.ok THEN sk
    ELSE IF sk.idx < Len(str) /\ READ(str, sk.idx) = close
    THEN [ok |-> TRUE, brk |-> TRUE, idx |-> sk.idx]
    ELSE IF sk.idx >= Len(str) \/ READ(str, sk.idx) # CH.comma
    THEN acc_raise_errmsg("Expecting ',' delimiter", comma_idx)
    ELSE acc_AfterComma(so, str, close, sk.idx, acc_skip_comments(so, str, sk.idx + 1))

RECURSIVE acc_scan_once_unicode(_, _, _, _, _)
RECURSIVE acc_ObjectLoop(_, _, _, _, _, _)
RECURSIVE acc_ArrayLoop(_, _, _, _, _, _)

\* the loop body after the delimiter: break with the dict, or go round
acc_ObjectNext(so, memo, str, pairs, depth, after) ==
    IF ~after.ok THEN after
    ELSE IF after.brk
    THEN [ok |-> TRUE, val |-> ObjVal(pairs), next |-> after.idx + 1, memo |-> memo]
    ELSE acc_ObjectLoop(so, memo, str, after.idx, pairs, depth)

\* the loop body after "read any JSON term"
acc_ObjectValue(so, str, pairs, depth, key, nk, v) ==
    IF ~v.ok THEN v
    ELSE acc_ObjectNext(so, v.memo, str, acc_PyDict_SetItem(pairs, key, nk, v.val), depth,
                        acc_Delimiter(so, str, CH.rbrace, v.next,
                                      acc_skip_comments(so, str, v.next)))

\* "skip comments between key and : delimiter, read :, skip comments"
acc_ColonAt(so, str, colon_idx, sk) ==
    IF ~sk.ok THEN sk
    ELSE IF sk.idx >= Len(str) \/ READ(str, sk.idx) # CH.colon
    THEN acc_raise_errmsg("Expecting ':' delimiter", colon_idx)
    ELSE acc_skip_comments(so, str, sk.idx + 1)

\* the loop body after the colon: col is the cursor on the value
acc_ObjectColon(so, memo, str, pairs, depth, key, nk, col) ==
    IF ~col.ok THEN col
    ELSE acc_ObjectValue(so, str, pairs, depth, key, nk,
                         acc_scan_once_unicode(so, memo, str, col.idx, depth))

\* the loop body after the key object nk was made for the key k
acc_ObjectNewKey(so, str, pairs, depth, k, nk) ==
    IF ~nk.ok THEN nk
    ELSE acc_ObjectColon(so, nk.memo, str, pairs, depth, k.val.chars, nk,
                         acc_ColonAt(so, str, k.next, acc_skip_comments(so, str, k.next)))

\* the loop body after "read key": k is what scanstring_unicode returned
acc_ObjectKey(so, memo, str, i, pairs, depth, k) ==
    IF ~k.ok THEN k
    ELSE acc_ObjectNewKey(so, str, pairs, depth, k,
                          acc_NewKey(so, memo, pairs, k.val.chars, i))

\* the while (1) loop of _parse_object_unicode, entered with idx on a key
acc_ObjectLoop(so, memo, str, i, pairs, depth) ==
    IF i >= Len(str) \/ READ(str, i) # CH.quote
    THEN acc_raise_errmsg("Expecting string", i)
    ELSE acc_ObjectKey(so, memo, str, i, pairs, depth, acc_scanstring_unicode(str, i + 1))

\* "only loop if the object is non-empty", the comments after { skipped to sk
acc_ObjectBody(so, memo, str, depth, sk) ==
    IF ~sk.ok THEN sk
    ELSE IF sk.idx >= Len(str) \/ READ(str, sk.idx) # CH.rbrace
    THEN acc_ObjectLoop(so, memo, str, sk.idx, <<>>, depth)
    ELSE [ok |-> TRUE, val |-> ObjVal(<<>>), next |-> sk.idx + 1, memo |-> memo]

acc_parse_object_unicode(so, memo, str, i, depth) ==
    acc_ObjectBody(so, memo, str, depth, acc_skip_comments(so, str, i))

acc_ArrayNext(so, memo, str, items, depth, after) ==
    IF ~after.ok THEN after
    ELSE IF after.brk
    THEN [ok |-> TRUE, val |-> ArrVal(items), next |-> after.idx + 1, memo |-> memo]
    ELSE acc_ArrayLoop(so, memo, str, after.idx, items, depth)

\* the loop body after "read any JSON term"
acc_ArrayValue(so, str, items, depth, v) ==
    IF ~v.ok THEN v
    ELSE acc_ArrayNext(so, v.memo, str, Append(items, v.val), depth,
                       acc_Delimiter(so, str, CH.rbracket, v.next,
                                     acc_skip_comments(so, str, v.next)))

acc_ArrayLoop(so, memo, str, i, items, depth) ==
    acc_ArrayValue(so, str, items, depth, acc_scan_once_unicode(so, memo, str, i, depth))

acc_ArrayBody(so, memo, str, depth, sk) ==
    IF ~sk.ok THEN sk
    ELSE IF sk.idx >= Len(str) \/ READ(str, sk.idx) # CH.rbracket
    THEN acc_ArrayLoop(so, memo, str, sk.idx, <<>>, depth)
    ELSE [ok |-> TRUE, val |-> ArrVal(<<>>), next |-> sk.idx + 1, memo |-> memo]

acc_parse_array_unicode(so, memo, str, i, depth) ==
    acc_ArrayBody(so, memo, str, depth, acc_skip_comments(so, str, i))

\* the three non-finite literals of the switch, refused unless allow_nan
acc_ScanConstant(so, str, i) ==
    IF Lookahead(str, i, WORD.NaN) THEN
        IF ~so.allow_nan THEN acc_raise_errmsg("NaN is not allowed", i)
        ELSE [ok |-> TRUE, val |-> FloatVal("nan", <<>>), next |-> i + 3]
    ELSE IF Lookahead(str, i, WORD.Infinity) THEN
        IF ~so.allow_nan THEN acc_raise_errmsg("Infinity is not allowed", i)
        ELSE [ok |-> TRUE, val |-> FloatVal("inf", <<>>), next |-> i + 8]
    ELSE IF Lookahead(str, i, WORD.NegInfinity) THEN
        IF ~so.allow_nan THEN acc_raise_errmsg("-Infinity is not allowed", i)
        ELSE [ok |-> TRUE, val |-> FloatVal("-inf", <<>>), next |-> i + 9]
    ELSE [ok |-> FALSE, none |-> TRUE]

\* the end of the switch: the literal k, or "Look for a number"
acc_ConstantOrNumber(memo, str, i, k) ==
    IF k.ok \/ "err" \in DOMAIN k THEN WithMemo(k, memo)
    ELSE WithMemo(acc_match_number_unicode(str, i), memo)

\* depth is the number of _Py_EnterRecursiveCall in effect; a call that
\* fails leaves a RecursionError pending
acc_scan_once_unicode(so, memo, str, i, depth) ==
    IF i >= Len(str) THEN acc_raise_errmsg("Expecting value", i)
    ELSE IF READ(str, i) = CH.quote THEN WithMemo(acc_scanstring_unicode(str, i + 1), memo)
    ELSE IF READ(str, i) = CH.lbrace THEN
        IF depth >= RecursionLimit THEN RecursionError
        ELSE acc_parse_object_unicode(so, memo, str, i + 1, depth + 1)
    ELSE IF READ(str, i) = CH.lbracket THEN
        IF depth >= RecursionLimit THEN RecursionError
        ELSE acc_parse_array_unicode(so, memo, str, i + 1, depth + 1)
    ELSE IF Lookahead(str, i, WORD.null)
    THEN [ok |-> TRUE, val |-> NullVal, next |-> i + 4, memo |-> memo]
    ELSE IF Lookahead(str, i, WORD.true)
    THEN [ok |-> TRUE, val |-> BoolVal(TRUE), next |-> i + 4, memo |-> memo]
    ELSE IF Lookahead(str, i, WORD.false)
    THEN [ok |-> TRUE, val |-> BoolVal(FALSE), next |-> i + 5, memo |-> memo]
    ELSE acc_ConstantOrNumber(memo, str, i, acc_ScanConstant(so, str, i))

\* if (idx < len) raise "Unexpected value"
acc_EndOfFile(str, sk) ==
    IF sk.ok /\ sk.idx < Len(str) THEN acc_raise_errmsg("Unexpected value", sk.idx) ELSE sk

(***************************************************************************)
(* scanner_call of _accelerator.c, in the three steps of scanner_call      *)
(***************************************************************************)
acc_ScannerCallBegin ==
    /\ gen = "accelerator"
    /\ pc = "call"
    /\ Skipped(acc_skip_comments(s, pystr, 0), "scan")
    /\ UNCHANGED <<gen, s, encoder, obj, heap, pystr, shape, alloc>>

acc_ScannerCallScan ==
    /\ gen = "accelerator"
    /\ pc = "scan"
    /\ Scanned(acc_scan_once_unicode(s, NewMemo, pystr, idx, 0))
    /\ UNCHANGED <<gen, s, encoder, obj, heap, pystr, shape, alloc>>

acc_ScannerCallEnd ==
    /\ gen = "accelerator"
    /\ pc = "tail"
    /\ Skipped(acc_EndOfFile(pystr, acc_skip_comments(s, pystr, idx)), "done")
    /\ UNCHANGED <<gen, s, encoder, obj, heap, pystr, shape, alloc>>

acc_Next == acc_ScannerCallBegin \/ acc_ScannerCallScan \/ acc_ScannerCallEnd

(***************************************************************************)
(* Inputs of duplicate keys: an object of up to MaxMembers members, their  *)
(* keys spelt plainly or with an escape, their values numbers or objects   *)
(***************************************************************************)
MaxMembers == 3

\* scanner_new of _accelerator.c with every permissive flag off
acc_StrictScanner ==
    [allow_comments |-> FALSE, allow_duplicate_keys |-> FALSE, allow_nan |-> FALSE,
     allow_trailing_comma |-> FALSE]

acc_Scanners(flags) ==
    {so \in [allow_comments : BOOLEAN, allow_duplicate_keys : BOOLEAN,
             allow_nan : BOOLEAN, allow_trailing_comma : BOOLEAN] :
        \A f \in (DOMAIN acc_StrictScanner) \ flags : so[f] = acc_StrictScanner[f]}

acc_StartScan(so, text, sh) ==
    /\ gen = "accelerator"
    /\ s = so
    /\ encoder = NoEncoder
    /\ obj = NoVal
    /\ heap = <<>>
    /\ alloc = NoFault
    /\ pystr = text
    /\ shape = sh
    /\ pc = "call"
    /\ idx = 0
    /\ rval = NoVal
    /\ err = NoErr

\* `"a"`, `"b"`, and `"a"`, which is the key text a again
KeyLiterals ==
    { [text |-> <<CH.quote, CH.a, CH.quote>>, chars |-> <<CH.a>>],
      [text |-> <<CH.quote, CH.b, CH.quote>>, chars |-> <<CH.b>>],
      [text |-> <<CH.quote, CH.backslash, CH.u, CH.zero, CH.zero, CH.six, CH.one,
                  CH.quote>>,
       chars |-> <<CH.a>>] }

Member(key, val) == [key |-> key, val |-> val]

NumberOne == [vt |-> "num", text |-> <<CH.one>>, n |-> 1]

\* `1`, `{"a":1}` and `{"a":1,"a":1}`
MemberValues ==
    { NumberOne,
      [vt |-> "obj", members |-> <<Member([text |-> <<CH.quote, CH.a, CH.quote>>,
                                           chars |-> <<CH.a>>], NumberOne)>>],
      [vt |-> "obj",
       members |-> <<Member([text |-> <<CH.quote, CH.a, CH.quote>>, chars |-> <<CH.a>>],
                            NumberOne),
                     Member([text |-> <<CH.quote, CH.backslash, CH.u, CH.zero, CH.zero,
                                        CH.six, CH.one, CH.quote>>,
                             chars |-> <<CH.a>>], NumberOne)>>] }

MemberShapes ==
    [fam : {"members"},
     members : SeqsUpTo([key : KeyLiterals, val : MemberValues], MaxMembers)]

RECURSIVE MembersText(_, _)
\* the text of the object of the members
ObjectText(members) == <<CH.lbrace>> \o MembersText(members, 1) \o <<CH.rbrace>>

ValueText(v) == IF v.vt = "num" THEN v.text ELSE ObjectText(v.members)

MemberText(m) == m.key.text \o <<CH.colon>> \o ValueText(m.val)

\* members k.., separated by commas
MembersText(members, k) ==
    IF k > Len(members) THEN <<>>
    ELSE IF k = Len(members) THEN MemberText(members[k])
    ELSE MemberText(members[k]) \o <<CH.comma>> \o MembersText(members, k + 1)

InitDuplicates ==
    \E so \in acc_Scanners({"allow_duplicate_keys"}), sh \in MemberShapes :
        acc_StartScan(so, ObjectText(sh.members), sh)

SpecDuplicates == InitDuplicates /\ [][acc_Next]_scan_vars

\* the key text of member k occurred before in the same object
OccurredBefore(members, k) ==
    \E j \in 1..(k - 1) : members[j].key.chars = members[k].key.chars

RECURSIVE FirstDuplicate(_, _, _)
\* the duplicate found inside the value of member k, whose key is at C index
\* at, or else the first one of the members after it
DuplicateInValue(members, k, at, inner) ==
    IF inner >= 0 THEN inner
    ELSE FirstDuplicate(members, k + 1, at + Len(MemberText(members[k])) + 1)

\* the C index of the first key, in the order of the text, that occurred
\* before in its object, among members k.. (member k's key is at C index
\* at); -1 if there is none
FirstDuplicate(members, k, at) ==
    IF k > Len(members) THEN -1
    ELSE IF OccurredBefore(members, k) THEN at
    ELSE DuplicateInValue(members, k, at,
            IF members[k].val.vt = "obj"
            THEN FirstDuplicate(members[k].val.members, 1,
                                at + Len(members[k].key.text) + 2)
            ELSE -1)

RECURSIVE KeptObject(_)
\* the object that keeps every member: key text, whether the key is a
\* DuplicateKey, and value
KeptValue(v) == IF v.vt = "num" THEN IntVal(v.n) ELSE KeptObject(v.members)

KeptObject(members) ==
    [t |-> "obj",
     pairs |-> [k \in 1..Len(members) |->
                  [key |-> members[k].key.chars, dup |-> OccurredBefore(members, k),
                   val |-> KeptValue(members[k].val)]]]

RECURSIVE WithoutIdentity(_)
\* a scanned value, the identities of its key objects left out
WithoutIdentity(v) ==
    IF v.t \in {"obj", "pairs"}
    THEN [t |-> v.t,
          pairs |-> [k \in 1..Len(v.pairs) |->
                       [key |-> v.pairs[k].key, dup |-> v.pairs[k].dup,
                        val |-> WithoutIdentity(v.pairs[k].val)]]]
    ELSE v

RECURSIVE DistinctWrappers(_)
\* every DuplicateKey of every object of v is a key object of its own
DistinctWrappers(v) ==
    v.t = "obj" =>
        /\ \A j, k \in 1..Len(v.pairs) :
              (j # k /\ v.pairs[k].dup) => v.pairs[j].inst # v.pairs[k].inst
        /\ \A k \in 1..Len(v.pairs) : DistinctWrappers(v.pairs[k].val)

DuplicateRefusal(at) == [msg |-> "Duplicate keys are not allowed", start |-> at, end |-> 0]

C2_WitnessRefused ==
    /\ shape.fam = "members"
    /\ pc = "done"
    /\ ~s.allow_duplicate_keys
    /\ Len(shape.members) = 2
    /\ shape.members[1].val.vt = "obj"
    /\ Len(shape.members[1].val.members) = 1
    /\ shape.members[1].key.chars = <<CH.a>>
    /\ err = DuplicateRefusal(1 + Len(MemberText(shape.members[1])) + 1)

(***************************************************************************)
(* The encoder of _speedups.c.  A function that writes to the              *)
(* _PyUnicodeWriter returns what it wrote (out); a function that returns   *)
(* -1 / NULL with a Python exception set is EncodeError(msg).  The values  *)
(* hook is None, and every value is of an exact built-in type.            *)
(***************************************************************************)
EncodeError(msg) == [ok |-> FALSE, err |-> [msg |-> msg, start |-> 0, end |-> 0]]

Written(out) == [ok |-> TRUE, out |-> out]

\* DEL taken for a printable character
S_CHAR_WithDel(c) == c >= CH.space /\ c <= CH.del /\ c # CH.backslash /\ c # CH.quote

S_CHAR(c) == c >= CH.space /\ c <= CH.tilde /\ c # CH.backslash /\ c # CH.quote

\* Py_hexdigits[n]
Py_hexdigits(n) == IF n < 10 THEN CH.zero + n ELSE CH.a + (n - 10)

\* `u` and the four hex digits of the code unit v
UnicodeEscapeOf(v) ==
    <<CH.u, Py_hexdigits((v \div 4096) % 16), Py_hexdigits((v \div 256) % 16),
      Py_hexdigits((v \div 16) % 16), Py_hexdigits(v % 16)>>

\* the letter of the two-character escape of c in the switches of
\* ascii_escape_unichar and escape_unicode; 0 for the default: branch
ShortEscape(c) ==
    IF c = CH.backslash \/ c = CH.quote THEN c
    ELSE IF c = CH.bs THEN CH.b
    ELSE IF c = CH.ff THEN CH.f
    ELSE IF c = CH.lf THEN CH.n
    ELSE IF c = CH.cr THEN CH.r
    ELSE IF c = CH.tab THEN CH.t
    ELSE 0

\* the escape of a code point that is not S_CHAR: Py_UNICODE_HIGH_SURROGATE
\* is 0xD800 - (0x10000 >> 10) + (c >> 10), Py_UNICODE_LOW_SURROGATE is
\* 0xDC00 + (c & 0x3FF)
ascii_escape_unichar(c, allow_surrogates) ==
    IF ShortEscape(c) # 0 THEN Written(<<CH.backslash, ShortEscape(c)>>)
    ELSE IF c >= 65536
    THEN Written(<<CH.backslash>> \o UnicodeEscapeOf(55232 + (c \div 1024))
                 \o <<CH.backslash>> \o UnicodeEscapeOf(56320 + (c % 1024)))
    ELSE IF c >= 55296 /\ c <= 57343 /\ ~allow_surrogates
    THEN EncodeError("Surrogates are not allowed")
    ELSE Written(<<CH.backslash>> \o UnicodeEscapeOf(c))

RECURSIVE ascii_escape_from(_, _, _, _)
\* the escape of input[i] was written (or failed) as esc
ascii_escape_next(input, allow_surrogates, i, out, esc) ==
    IF ~esc.ok THEN esc
    ELSE ascii_escape_from(input, allow_surrogates, i + 1, out \o esc.out)

\* the second loop of ascii_escape_unicode from C index i, out written so far
ascii_escape_from(input, allow_surrogates, i, out) ==
    IF i >= Len(input) THEN Written(out)
    ELSE IF S_CHAR(READ(input, i))
    THEN ascii_escape_from(input, allow_surrogates, i + 1, Append(out, READ(input, i)))
    ELSE ascii_escape_next(input, allow_surrogates, i, out,
                           ascii_escape_unichar(READ(input, i), allow_surrogates))

ascii_escape_unicode(input, allow_surrogates) ==
    ascii_escape_from(input, allow_surrogates, 0, <<>>)

\* the control characters written as they are
ENCODE_OUTPUT_NoControl(c) ==
    IF ShortEscape(c) # 0 THEN <<CH.backslash, ShortEscape(c)>> ELSE <<c>>

\* what ENCODE_OUTPUT writes for the code point c
ENCODE_OUTPUT(c) ==
    IF ShortEscape(c) # 0 THEN <<CH.backslash, ShortEscape(c)>>
    ELSE IF c <= 31
    THEN <<CH.backslash, CH.u, CH.zero, CH.zero, Py_hexdigits((c \div 16) % 16),
           Py_hexdigits(c % 16)>>
    ELSE <<c>>

RECURSIVE escape_from(_, _)
escape_from(input, i) ==
    IF i >= Len(input) THEN <<>>
    ELSE ENCODE_OUTPUT(READ(input, i)) \o escape_from(input, i + 1)

escape_unicode(input) == Written(escape_from(input, 0))

\* the quotes around the escaped text
Quoted(encoded) ==
    IF ~encoded.ok THEN encoded
    ELSE Written(<<CH.quote>> \o encoded.out \o <<CH.quote>>)

encoder_write_string(enc, chars) ==
    IF ~enc.ensure_ascii THEN Quoted(escape_unicode(chars))
    ELSE Quoted(ascii_escape_unicode(chars, enc.allow_surrogates))

RECURSIVE DecimalDigits(_)
\* the decimal digits of n >= 0
DecimalDigits(n) ==
    IF n < 10 THEN <<CH.zero + n>>
    ELSE Append(DecimalDigits(n \div 10), CH.zero + (n % 10))

\* PyObject_Str of an exact int
PyObject_Str(n) ==
    IF n < 0 THEN <<CH.minus>> \o DecimalDigits(0 - n) ELSE DecimalDigits(n)

\* the repr of a non-finite float
FloatRepr(kind) == IF kind = "inf" THEN "inf" ELSE IF kind = "-inf" THEN "-inf" ELSE "nan"

\* an exact float.  The repr of a finite float is not modelled: the literal
\* kept in the value stands for it
encoder_encode_float(enc, v) ==
    IF v.kind = "finite" THEN Written(v.lit)
    ELSE IF ~enc.allow_nan_and_infinity
    THEN EncodeError(FloatRepr(v.kind) \o " is not allowed")
    ELSE IF v.kind = "inf" THEN Written(WORD.Infinity)
    ELSE IF v.kind = "-inf" THEN Written(WORD.NegInfinity)
    ELSE Written(WORD.NaN)

RECURSIVE newline_indent(_, _)
\* indent_cache[2 * k]: '\n' + indent * k, as update_indent_cache builds it
newline_indent(enc, k) ==
    IF k = 0 THEN <<CH.lf>> ELSE newline_indent(enc, k - 1) \o enc.indent.text

\* indent_cache[2 * k - 1]: item_separator + '\n' + indent * k
get_item_separator(enc, k) == enc.item_separator \o newline_indent(enc, k)

\* a value that is a list or a dict: one written in the value itself, or
\* one of the heap, which the value refers to by its identity
RefVal(id) == [t |-> "ref", id |-> id]

\* a dict with keys of any type: its (key, value) items in insertion order.
\* ascii is what PyUnicode_IS_ASCII(key) reads when the key is no str: a bit
\* of the memory behind the key object
DictVal(items) == [t |-> "dict", items |-> items]

Item(key, ascii, val) == [key |-> key, ascii |-> ascii, val |-> val]

\* a key of a type the encoder has no text for
OtherVal(tp_name) == [t |-> "other", tp_name |-> tp_name]

Deref(v) == IF v.t = "ref" THEN heap[v.id] ELSE v

\* PyList_Check(obj) || PyTuple_Check(obj) || PyDict_Check(obj)
IsContainer(v) == Deref(v).t \in {"arr", "obj", "dict"}

\* max_indent_level left out of the test
Indented_NoLimit(enc, indent_level, children) ==
    IF enc.indent.none THEN FALSE
    ELSE IF enc.indent_leaves THEN TRUE
    ELSE \E k \in 1..Len(children) : IsContainer(children[k])

\* the test that sets `indented` for a container at indent_level whose
\* items (or values) are children
Indented(enc, indent_level, children) ==
    IF enc.indent.none \/ indent_level >= enc.max_indent_level THEN FALSE
    ELSE IF enc.indent_leaves THEN TRUE
    ELSE \E k \in 1..Len(children) : IsContainer(children[k])

\* what is written before an item of a container: level is the indent_level
\* of its items, first is TRUE before the first item that is written
BeforeItem(enc, first, indented, level) ==
    IF ~first THEN IF indented THEN get_item_separator(enc, level)
                   ELSE enc.long_item_separator
    ELSE IF indented THEN newline_indent(enc, level)
    ELSE <<>>

\* the trailing separator and the newline written without an item
AfterItems_WithoutItems(enc, first, indented, level) ==
    IF indented
    THEN (IF enc.trailing_comma THEN enc.item_separator ELSE <<>>)
         \o newline_indent(enc, level - 1)
    ELSE <<>>

\* what is written after the items and before the closing bracket
AfterItems(enc, first, indented, level) ==
    IF ~first /\ indented
    THEN (IF enc.trailing_comma THEN enc.item_separator ELSE <<>>)
         \o newline_indent(enc, level - 1)
    ELSE <<>>

\* PyUnicode_IS_ASCII(key) of the key of item
PyUnicode_IS_ASCII(item) ==
    IF item.key.t = "str"
    THEN \A k \in 1..Len(item.key.chars) : item.key.chars[k] <= CH.del
    ELSE item.ascii

\* ensure_ascii left out of the test
KeyIsQuoted_IdentifierOnly(enc, item, encoded) ==
    \/ enc.quoted_keys
    \/ ~PyUnicode_IsIdentifier(encoded)

\* whether the key of item, coerced to the text encoded, is written between
\* quotes
KeyIsQuoted(enc, item, encoded) ==
    \/ enc.quoted_keys
    \/ ~PyUnicode_IsIdentifier(encoded)
    \/ (enc.ensure_ascii /\ ~PyUnicode_IS_ASCII(item))

\* the key as it is written
WriteKey(enc, item, encoded) ==
    IF KeyIsQuoted(enc, item, encoded) THEN encoder_write_string(enc, encoded)
    ELSE Written(encoded)

\* markers is Py_None
NoMarkers == [none |-> TRUE, ids |-> {}]

\* markers = PyDict_New()
NewMarkers == [none |-> FALSE, ids |-> {}]

\* has_key: the ident of the container v is a key of markers.  A list or
\* dict written in the value itself is an object of its own, met once
IsMarked(markers, v) == ~markers.none /\ v.t = "ref" /\ v.id \in markers.ids

\* the ident is never inserted
Marked_NotInserted(markers, v) == markers

\* PyDict_SetItem(markers, ident, v); the PyDict_DelItem after the items is
\* the return to the caller's markers
Marked(markers, v) ==
    IF markers.none \/ v.t # "ref" THEN markers
    ELSE [markers EXCEPT !.ids = @ \cup {v.id}]

\* what the loop over the items of a container wrote; first is still TRUE
\* when it wrote no item
ItemsWritten(out, first) == [ok |-> TRUE, out |-> out, first |-> first]

RECURSIVE encoder_listencode_obj(_, _, _, _, _)
RECURSIVE SequenceItems(_, _, _, _, _, _, _, _)
RECURSIVE MappingItems(_, _, _, _, _, _, _, _, _)

\* item i of a sequence was encoded (or failed) as r
SequenceItem(enc, markers, items, i, indented, level, depth, out, r) ==
    IF ~r.ok THEN r
    ELSE SequenceItems(enc, markers, items, i + 1, indented, level, depth,
                       out \o BeforeItem(enc, i = 1, indented, level) \o r.out)

\* the for loop of encoder_listencode_sequence from item i
SequenceItems(enc, markers, items, i, indented, level, depth, out) ==
    IF i > Len(items) THEN ItemsWritten(out, Len(items) = 0)
    ELSE SequenceItem(enc, markers, items, i, indented, level, depth, out,
                      encoder_listencode_obj(enc, markers, items[i], level, depth))

\* the end of either container: body is what the loop wrote after the
\* opening bracket
CloseContainer(enc, close, indented, level, body) ==
    IF ~body.ok THEN body
    ELSE Written(body.out \o AfterItems(enc, body.first, indented, level)
                 \o <<close>>)

\* encoder_listencode_sequence after `indented` was computed
SequenceBody(enc, markers, items, indent_level, depth, indented) ==
    CloseContainer(enc, CH.rbracket, indented,
                   IF indented THEN indent_level + 1 ELSE indent_level,
                   SequenceItems(enc, markers, items, 1, indented,
                                 IF indented THEN indent_level + 1 ELSE indent_level,
                                 depth, <<CH.lbracket>>))

encoder_listencode_sequence(enc, markers, seq, indent_level, depth) ==
    IF IsMarked(markers, seq) THEN EncodeError("Unexpected circular reference")
    ELSE SequenceBody(enc, Marked(markers, seq), Deref(seq).items, indent_level,
                      depth, Indented(enc, indent_level, Deref(seq).items))

\* the text of a key that is None, True, False, an int or a float
CoercedKey(enc, key) ==
    IF key.t = "null" THEN Written(WORD.null)
    ELSE IF key.t = "bool" THEN Written(IF key.b THEN WORD.true ELSE WORD.false)
    ELSE IF key.t = "int" THEN Written(PyObject_Str(key.n))
    ELSE encoder_encode_float(enc, key)

\* return 0 before anything was written
SkippedKey == [ok |-> FALSE, skip |-> TRUE]

\* allow_non_str_keys taken for true
EncodedKey_AlwaysCoerced(enc, key) ==
    IF key.t = "str" THEN Written(key.chars)
    ELSE IF key.t = "other"
    THEN IF enc.skipkeys THEN SkippedKey
         ELSE EncodeError("Keys must be str, not " \o key.tp_name)
    ELSE CoercedKey(enc, key)

\* `encoded`, the text of a key (a float key is finite)
EncodedKey(enc, key) ==
    IF key.t = "str" THEN Written(key.chars)
    ELSE IF key.t = "other"
    THEN IF enc.skipkeys THEN SkippedKey
         ELSE EncodeError("Keys must be str, not " \o key.tp_name)
    ELSE IF ~enc.allow_non_str_keys
    THEN IF enc.skipkeys THEN SkippedKey
         ELSE EncodeError("Non-string keys are not allowed")
    ELSE CoercedKey(enc, key)

\* the separator, the key written as wk, the key separator and the value
\* written as v
WrittenKeyValue(enc, first, indented, level, wk, v) ==
    IF ~wk.ok THEN wk
    ELSE IF ~v.ok THEN v
    ELSE ItemsWritten(BeforeItem(enc, first, indented, level) \o wk.out
                      \o enc.key_separator \o v.out, FALSE)

\* encoder_encode_key_value after the key was coerced to k
CoercedKeyValue(enc, markers, first, indented, item, level, depth, k) ==
    IF "skip" \in DOMAIN k THEN ItemsWritten(<<>>, first)
    ELSE IF ~k.ok THEN k
    ELSE WrittenKeyValue(enc, first, indented, level, WriteKey(enc, item, k.out),
                         encoder_listencode_obj(enc, markers, item.val, level, depth))

encoder_encode_key_value(enc, markers, first, indented, item, level, depth) ==
    CoercedKeyValue(enc, markers, first, indented, item, level, depth,
                    EncodedKey(enc, item.key))

\* member i of a mapping was encoded (or skipped, or failed) as r
MappingItem(enc, markers, items, i, indented, level, depth, out, r) ==
    IF ~r.ok THEN r
    ELSE MappingItems(enc, markers, items, i + 1, r.first, indented, level, depth,
                      out \o r.out)

\* the loop of encoder_listencode_mapping over the items
MappingItems(enc, markers, items, i, first, indented, level, depth, out) ==
    IF i > Len(items) THEN ItemsWritten(out, first)
    ELSE MappingItem(enc, markers, items, i, indented, level, depth, out,
                     encoder_encode_key_value(enc, markers, first, indented,
                                              items[i], level, depth))

\* the items of a dict in insertion order
PyMapping_Items(mapping) ==
    IF mapping.t = "obj"
    THEN [k \in 1..Len(mapping.pairs) |->
            Item(StrVal(mapping.pairs[k].key), FALSE, mapping.pairs[k].val)]
    ELSE mapping.items

RECURSIVE TextLess(_, _)
\* a < b for two str: the first code point that differs decides
TextLess(a, b) ==
    IF b = <<>> THEN FALSE
    ELSE IF a = <<>> THEN TRUE
    ELSE IF a[1] # b[1] THEN a[1] < b[1]
    ELSE TextLess(Tail(a), Tail(b))

\* ten times the number a key is: an int, a bool (an int, too), or a float
\* (the floats among the keys have one fraction digit and no sign)
TenTimes(key) ==
    IF key.t = "int" THEN 10 * key.n
    ELSE IF key.t = "bool" THEN (IF key.b THEN 10 ELSE 0)
    ELSE DecimalValue(SelectSeq(key.lit, IsDigit))

\* a < b is defined for the two keys
Comparable(a, b) ==
    \/ (a.t = "str" /\ b.t = "str")
    \/ (a.t \in {"int", "bool", "float"} /\ b.t \in {"int", "bool", "float"})

\* a < b for two keys of a dict, where it is defined
KeyLess(a, b) ==
    IF a.t = "str" THEN TextLess(a.chars, b.chars) ELSE TenTimes(a) < TenTimes(b)

\* the place of item i in the sorted list
Rank(items, i) ==
    1 + Cardinality({j \in 1..Len(items) \ {i} : KeyLess(items[j].key, items[i].key)})

\* PyList_Sort(items): the (key, value) tuples are compared, the keys first;
\* the keys of a dict are unequal, so the values are never compared
PyList_Sort(items) ==
    IF \E i, j \in 1..Len(items) : i # j /\ ~Comparable(items[i].key, items[j].key)
    THEN EncodeError("'<' not supported between instances")
    ELSE [ok |-> TRUE,
          items |-> [p \in 1..Len(items) |->
                       items[CHOOSE i \in 1..Len(items) : Rank(items, i) = p]]]

\* the items the loop goes over
ItemsToEncode(enc, mapping) ==
    IF enc.sort_keys THEN PyList_Sort(PyMapping_Items(mapping))
    ELSE [ok |-> TRUE, items |-> PyMapping_Items(mapping)]

\* encoder_listencode_mapping after `indented` was computed and the items
\* were listed as sorted
MappingBody(enc, markers, indent_level, depth, indented, sorted) ==
    IF ~sorted.ok THEN sorted
    ELSE CloseContainer(enc, CH.rbrace, indented,
                        IF indented THEN indent_level + 1 ELSE indent_level,
                        MappingItems(enc, markers, sorted.items, 1, TRUE, indented,
                                     IF indented THEN indent_level + 1
                                     ELSE indent_level,
                                     depth, <<CH.lbrace>>))

\* the values of a dict
PyDict_Values(mapping) ==
    [k \in 1..Len(PyMapping_Items(mapping)) |-> PyMapping_Items(mapping)[k].val]

encoder_listencode_mapping(enc, markers, mapping, indent_level, depth) ==
    IF IsMarked(markers, mapping) THEN EncodeError("Unexpected circular reference")
    ELSE MappingBody(enc, Marked(markers, mapping), indent_level, depth,
                     Indented(enc, indent_level, PyDict_Values(Deref(mapping))),
                     ItemsToEncode(enc, Deref(mapping)))

\* depth is the number of _Py_EnterRecursiveCall in effect
encoder_listencode_obj(enc, markers, v, indent_level, depth) ==
    IF v.t = "null" THEN Written(WORD.null)
    ELSE IF v.t = "bool" THEN Written(IF v.b THEN WORD.true ELSE WORD.false)
    ELSE IF v.t = "str" THEN encoder_write_string(enc, v.chars)
    ELSE IF v.t = "int" THEN Written(PyObject_Str(v.n))
    ELSE IF v.t = "float" THEN encoder_encode_float(enc, v)
    ELSE IF depth >= RecursionLimit THEN EncodeError("RecursionError")
    ELSE IF Deref(v).t = "arr"
    THEN encoder_listencode_sequence(enc, markers, v, indent_level, depth + 1)
    ELSE encoder_listencode_mapping(enc, markers, v, indent_level, depth + 1)

\* encoder_call: the term, then `end`
Encoded(enc, r) ==
    IF ~r.ok THEN Raise(r.err) /\ pystr' = pystr
    ELSE /\ pystr' = r.out \o enc.end
         /\ pc' = "call"
         /\ UNCHANGED <<idx, rval, err>>

(***************************************************************************)
(* The marker dict and the indent cache of an encode, as the calls of      *)
(* encoder_listencode_mapping and encoder_listencode_sequence change them  *)
(***************************************************************************)
\* ident = PyLong_FromVoidPtr(v): the address of a container of the heap,
\* or of the container written at position `at` of the value
IdentOf(v, at) ==
    IF v.t = "ref" THEN [id |-> v.id, at |-> <<>>] ELSE [id |-> 0, at |-> at]

\* the marker dict ids while the containers of path are being encoded
MarkerState(ids, path) == [ids |-> ids, path |-> path]

\* a list of one entry, the newline
create_indent_cache == << <<CH.lf>> >>

\* PyList_GET_ITEM(cache, i); i is not checked against the size of the list
PyList_GET_ITEM(cache, i) == IF i >= 0 /\ i < Len(cache) THEN cache[i + 1] ELSE <<>>

\* the two entries of indent_level appended to the cache
update_indent_cache(enc, indent_level, cache) ==
    cache \o <<enc.item_separator
                   \o PyList_GET_ITEM(cache, (indent_level - 1) * 2) \o enc.indent.text,
               PyList_GET_ITEM(cache, (indent_level - 1) * 2) \o enc.indent.text>>

\* the state before any container was met: no marker, the cache as
\* create_indent_cache made it (no cache without indent), nothing read
WalkStart(enc) ==
    [ok |-> TRUE, ids |-> {}, trail |-> <<>>, first |-> TRUE,
     cache |-> IF enc.indent.none THEN <<>> ELSE create_indent_cache,
     updates |-> <<>>, reads |-> <<>>]

Failed(w) == [w EXCEPT !.ok = FALSE]

\* entry i of the cache is read
CacheRead(w, i) ==
    [w EXCEPT !.reads = Append(@, [index |-> i, size |-> Len(w.cache),
                                   text |-> PyList_GET_ITEM(w.cache, i)])]

\* update_indent_cache is called for indent_level
CacheUpdated(enc, indent_level, w) ==
    [w EXCEPT !.cache = update_indent_cache(enc, indent_level, @),
              !.updates = Append(@, [level |-> indent_level, size |-> Len(w.cache),
                                     cache |-> update_indent_cache(enc, indent_level,
                                                                   w.cache)])]

\* the cache extended whether it has the level or not
cache_get_item_separator_NoTest(enc, indent_level, w) ==
    CacheRead(CacheUpdated(enc, indent_level, w), indent_level * 2 - 1)

\* get_item_separator(s, indent_level, indent_cache)
cache_get_item_separator(enc, indent_level, w) ==
    CacheRead(IF indent_level * 2 > Len(w.cache) THEN CacheUpdated(enc, indent_level, w)
              ELSE w,
              indent_level * 2 - 1)

\* write_newline_indent(writer, indent_level, indent_cache)
cache_write_newline_indent(indent_level, w) == CacheRead(w, indent_level * 2)

RECURSIVE markers_listencode_obj(_, _, _, _, _, _, _, _)
RECURSIVE markers_items(_, _, _, _, _, _, _, _, _, _, _)

\* item i was encoded (or failed) as w
markers_item(enc, on, items, i, indented, level, at, path, depth, w) ==
    IF ~w.ok THEN w
    ELSE markers_items(enc, on, w, items, i + 1, FALSE, indented, level, at, path, depth)

\* the key of item i was coerced to k: a skipped item leaves the loop body
\* before anything is written; the newline is written before the first key
markers_key_value(enc, on, w, items, i, first, indented, level, at, path, depth, k) ==
    IF "skip" \in DOMAIN k
    THEN markers_items(enc, on, w, items, i + 1, first, indented, level, at, path, depth)
    ELSE IF ~k.ok THEN Failed(w)
    ELSE IF ~WriteKey(enc, items[i], k.out).ok
    THEN Failed(IF first /\ indented THEN cache_write_newline_indent(level, w) ELSE w)
    ELSE markers_item(enc, on, items, i, indented, level, at, path, depth,
                      markers_listencode_obj(enc, on,
                                             IF first /\ indented
                                             THEN cache_write_newline_indent(level, w)
                                             ELSE w,
                                             items[i].val, Append(at, i), path, level,
                                             depth))

\* the loop over the items of a container from item i; an item of a dict
\* is a record with its key
markers_items(enc, on, w, items, i, first, indented, level, at, path, depth) ==
    IF i > Len(items) THEN [w EXCEPT !.first = first]
    ELSE IF "key" \in DOMAIN items[i]
    THEN markers_key_value(enc, on, w, items, i, first, indented, level, at, path,
                           depth, EncodedKey(enc, items[i].key))
    ELSE markers_item(enc, on, items, i, indented, level, at, path, depth,
                      markers_listencode_obj(enc, on,
                                             IF first /\ indented
                                             THEN cache_write_newline_indent(level, w)
                                             ELSE w,
                                             items[i], Append(at, i), path, level, depth))

\* the newline before the closing bracket of an indented container that
\* wrote an item
markers_close(indented, level, w) ==
    IF w.ok /\ ~w.first /\ indented THEN cache_write_newline_indent(level - 1, w)
    ELSE w

\* the ident left in the dict
markers_exit_NoDelItem(on, ident, path, w) ==
    IF ~w.ok \/ ~on THEN w
    ELSE [w EXCEPT !.trail = Append(@, MarkerState(w.ids, path))]

\* after the loop: PyDict_DelItem(markers, ident), which fails for a key
\* that is not in the dict
markers_exit(on, ident, path, w) ==
    IF ~w.ok \/ ~on THEN w
    ELSE IF ident \notin w.ids THEN Failed(w)
    ELSE [w EXCEPT !.ids = @ \ {ident},
                   !.trail = Append(@, MarkerState(w.ids \ {ident}, path))]

\* the items of the container were listed (and sorted) as sorted; level is
\* the indent_level of the items
markers_sorted(enc, on, w, ident, indented, level, at, path, depth, sorted) ==
    IF ~sorted.ok THEN Failed(w)
    ELSE markers_close(indented, level,
                       markers_exit(on, ident, path,
                                    markers_items(enc, on, w, sorted.items, 1, TRUE,
                                                  indented, level, at,
                                                  Append(path, ident), depth)))

\* `indented` was computed: indent_level++ and get_item_separator for an
\* indented container, then the items
markers_container(enc, on, w, v, ident, indented, level, at, path, depth) ==
    markers_sorted(enc, on,
                   IF indented THEN cache_get_item_separator(enc, level + 1, w) ELSE w,
                   ident, indented, IF indented THEN level + 1 ELSE level, at, path,
                   depth,
                   IF Deref(v).t = "arr" THEN [ok |-> TRUE, items |-> Deref(v).items]
                   ELSE ItemsToEncode(enc, Deref(v)))

\* PyDict_Contains(markers, ident) and PyDict_SetItem(markers, ident, v) of
\* either container
markers_enter(enc, on, w, v, ident, level, at, path, depth) ==
    IF on /\ ident \in w.ids THEN Failed(w)
    ELSE markers_container(enc, on,
                           IF on
                           THEN [w EXCEPT !.ids = @ \cup {ident},
                                          !.trail =
                                              Append(@, MarkerState(w.ids \cup {ident},
                                                                    Append(path, ident)))]
                           ELSE w,
                           v, ident,
                           Indented(enc, level,
                                    IF Deref(v).t = "arr" THEN Deref(v).items
                                    ELSE PyDict_Values(Deref(v))),
                           level, at, path, depth)

\* encoder_listencode_obj as far as the marker dict and the indent cache
\* go: on is markers != Py_None, w.ids the identities in the dict, path the
\* containers whose items are being encoded, level the indent_level
markers_listencode_obj(enc, on, w, v, at, path, level, depth) ==
    IF ~IsContainer(v)
    THEN [w EXCEPT !.ok = encoder_listencode_obj(enc, NoMarkers, v, 0, depth).ok]
    ELSE IF depth >= RecursionLimit THEN Failed(w)
    ELSE markers_enter(enc, on, w, v, IdentOf(v, at), level, at, path, depth + 1)

\* `bail`: _PyUnicodeWriter_Dealloc(&writer), Py_XDECREF(indent_cache),
\* Py_XDECREF(markers); has_cache and has_markers say which of the two
\* pointers are not NULL
Bail(r, enc, has_cache, has_markers) ==
    [r EXCEPT !.freed.writer = @ + 1,
              !.freed.indent_cache = IF has_cache THEN @ + 1 ELSE @,
              !.freed.markers = IF has_markers /\ enc.check_circular THEN @ + 1 ELSE @,
              !.none_decref = IF has_markers /\ ~enc.check_circular THEN @ + 1 ELSE @]

\* Py_DECREF(markers) after encoder_listencode_obj succeeded; markers is
\* the dict, or the None that was assigned without a new reference
MarkersReleased(r, enc) ==
    IF enc.check_circular THEN [r EXCEPT !.freed.markers = @ + 1]
    ELSE [r EXCEPT !.none_decref = @ + 1]

\* encoder_call from the call of encoder_listencode_obj on, which returned
\* ok; r has the writer, the indent cache and the markers of the call
EncoderCallEnd(r, enc, ok) ==
    IF ~ok THEN Bail(r, enc, ~enc.indent.none, TRUE)
    ELSE IF r.fault = "WriteStr"
    THEN Bail(MarkersReleased(r, enc), enc, ~enc.indent.none, TRUE)
    ELSE [MarkersReleased(r, enc) EXCEPT !.freed.writer = @ + 1]

\* encoder_call from `markers = PyDict_New()` on
EncoderCallMarkers(r, enc, ok) ==
    IF enc.check_circular /\ r.fault = "PyDict_New"
    THEN Bail(r, enc, ~enc.indent.none, FALSE)
    ELSE EncoderCallEnd(IF enc.check_circular THEN [r EXCEPT !.made.markers = @ + 1]
                        ELSE r,
                        enc, ok)

\* what encoder_call creates and releases: the writer (released by
\* _PyUnicodeWriter_Finish or _PyUnicodeWriter_Dealloc), the indent cache
\* and the markers; ok is the success of encoder_listencode_obj
EncoderCallCounts(r, enc, ok) ==
    IF ~enc.indent.none /\ r.fault = "create_indent_cache"
    THEN Bail([r EXCEPT !.made.writer = @ + 1], enc, FALSE, FALSE)
    ELSE EncoderCallMarkers([r EXCEPT !.made.writer = @ + 1,
                                      !.made.indent_cache =
                                          IF enc.indent.none THEN @ ELSE @ + 1],
                            enc, ok)

\* the allocation that is to fail is made by this call, and fails
Faulted(enc, ok) ==
    \/ ~enc.indent.none /\ alloc.fault = "create_indent_cache"
    \/ enc.check_circular /\ alloc.fault = "PyDict_New"
    \/ ok /\ alloc.fault = "WriteStr"

\* what the call of encoder_listencode_obj does to the marker dict and to
\* the indent cache;
\* the call is not reached when an allocation before it failed
EncoderCallWalk(enc, v, walk) ==
    IF \/ ~enc.indent.none /\ alloc.fault = "create_indent_cache"
       \/ enc.check_circular /\ alloc.fault = "PyDict_New"
    THEN walk
    ELSE markers_listencode_obj(enc, enc.check_circular, WalkStart(enc), v, <<>>, <<>>,
                                0, 0)

\* encoder_call, encoder_listencode_obj returning r
EncoderCalled(r) ==
    /\ IF Faulted(encoder, r.ok) THEN Raise(MemoryError) /\ pystr' = pystr
       ELSE Encoded(encoder, r)
    /\ alloc' = [EncoderCallCounts(alloc, encoder, r.ok) EXCEPT
                     !.walk = EncoderCallWalk(encoder, obj, @)]

EncoderCall ==
    /\ pc = "encode"
    /\ EncoderCalled(encoder_listencode_obj(encoder,
                                            IF encoder.check_circular THEN NewMarkers
                                            ELSE NoMarkers,
                                            obj, 0, 0))
    /\ UNCHANGED <<gen, s, encoder, obj, heap, shape>>

\* encode, then scan what was written
RoundTripNext == EncoderCall \/ ScannerCallBegin \/ ScannerCallScan \/ ScannerCallEnd

(***************************************************************************)
(* Inputs of the round trip: an encoder, a value, and the scanner that     *)
(* allows what the encoder writes                                          *)
(***************************************************************************)
\* the nesting of the containers of the values
MaxValueItems == 2

\* an indent level no value reaches
NoIndentLimit == 9

Encoders ==
    [allow_nan_and_infinity : {FALSE}, allow_surrogates : {FALSE},
     allow_non_str_keys : {FALSE}, check_circular : {TRUE},
     skipkeys : {FALSE}, sort_keys : {FALSE},
     ensure_ascii : BOOLEAN,
     indent : {[none |-> TRUE, text |-> <<>>], [none |-> FALSE, text |-> <<CH.space>>]},
     indent_leaves : BOOLEAN, max_indent_level : {1, NoIndentLimit},
     quoted_keys : BOOLEAN, trailing_comma : BOOLEAN,
     item_separator : {<<CH.comma>>}, long_item_separator : {<<CH.comma, CH.space>>},
     key_separator : {<<CH.colon, CH.space>>}, end : {<<CH.lf>>}]

\* a text of every kind of character the two escape functions tell apart,
\* the supplementary U+1F600 among them
MixedText ==
    <<CH.quote, CH.backslash, CH.lf, 1, CH.slash, CH.del, 233, 128512, CH.a>>

\* the keys of the members of an object, by position: an identifier that is
\* not ASCII, an identifier, no identifier
MemberKeys == << <<233, CH.one>>, <<CH.underscore, CH.a>>, <<>>, <<CH.one, CH.quote>> >>

ObjectOf(vals) ==
    ObjVal([k \in 1..Len(vals) |-> Pair(MemberKeys[k], 0, FALSE, vals[k])])

\* the leaves and the inner containers
InnerValues ==
    { NullVal, BoolVal(TRUE), BoolVal(FALSE), IntVal(0 - 120), StrVal(MixedText),
      ArrVal(<<>>), ArrVal(<<IntVal(0), StrVal(<<>>)>>),
      ObjVal(<<Pair(<<>>, 0, FALSE, StrVal(<<CH.a>>)),
               Pair(<<CH.a, 960>>, 0, FALSE, ArrVal(<<NullVal>>))>>) }

RoundTripValues ==
    InnerValues
    \cup {ArrVal(items) : items \in SeqsUpTo(InnerValues, MaxValueItems)}
    \cup {ObjectOf(vals) : vals \in SeqsUpTo(InnerValues, MaxValueItems)}

\* the scanner whose permissive flags are those the encoder needs
ScannerFor(enc) ==
    [StrictScanner EXCEPT !.allow_trailing_comma = enc.trailing_comma,
                          !.allow_unquoted_keys = ~enc.quoted_keys]

InitRoundTrip ==
    \E enc \in Encoders, v \in RoundTripValues :
        /\ gen = "speedups"
        /\ s = ScannerFor(enc)
        /\ encoder = enc
        /\ obj = v
        /\ heap = <<>>
        /\ alloc = NoFault
        /\ pystr = <<>>
        /\ shape = [fam |-> "value"]
        /\ pc = "encode"
        /\ idx = 0
        /\ rval = NoVal
        /\ err = NoErr

SpecRoundTrip == InitRoundTrip /\ [][RoundTripNext]_scan_vars

RECURSIVE Canon(_)
\* a value with its objects as unordered mappings from key text to value
Canon(v) ==
    IF v.t = "arr"
    THEN [t |-> "arr", items |-> [k \in 1..Len(v.items) |-> Canon(v.items[k])]]
    ELSE IF v.t = "obj"
    THEN [t |-> "obj", size |-> Len(v.pairs),
          members |-> {[key |-> v.pairs[k].key, val |-> Canon(v.pairs[k].val)] :
                          k \in 1..Len(v.pairs)}]
    ELSE v

\* C1: for every value built from Null, Bool, Int, Str, Array and Object
\* with text keys, scanning what the encoder wrote gives the value back
\* (objects compared as unordered mappings), for the standard separators
\* and every combination of ensure_ascii, indent, indent_leaves,
\* trailing_comma and quoted_keys, the scanner allowing trailing commas and
\* unquoted keys when the encoder writes them.
C1_RoundTrip ==
    (shape.fam = "value" /\ pc = "done") =>
        /\ err = NoErr
        /\ Canon(rval) = Canon(obj)

\* an object with an unquoted key that is not ASCII and a nested container
\* was written indented with trailing commas, and scanned back
C1_Witness ==
    /\ shape.fam = "value"
    /\ pc = "done"
    /\ err = NoErr
    /\ ~encoder.indent.none /\ encoder.trailing_comma /\ ~encoder.quoted_keys
    /\ ~encoder.ensure_ascii /\ ~encoder.indent_leaves
    /\ encoder.max_indent_level = NoIndentLimit
    /\ obj.t = "obj"
    /\ Len(obj.pairs) = 2
    /\ obj.pairs[1].val = StrVal(MixedText)
    /\ obj.pairs[2].val.t = "obj"
    /\ Len(obj.pairs[2].val.pairs) = 2
    /\ rval.t = "obj"
    /\ Len(rval.pairs) = 2

\* the same text was written with ensure_ascii and scanned back
C1_WitnessAscii ==
    /\ shape.fam = "value"
    /\ pc = "done"
    /\ err = NoErr
    /\ encoder.ensure_ascii
    /\ obj = StrVal(MixedText)
    /\ rval = obj
    /\ \A k \in 1..Len(pystr) : pystr[k] <= CH.del

(***************************************************************************)
(* The offsets of a diagnostic                                             *)
(***************************************************************************)
\* the call ended with a JSONSyntaxError of the scanner
ScanFailed == pc = "done" /\ err # NoErr /\ encoder = NoEncoder

MaxOpen == 4

\* opens[k] is TRUE when the k-th opening is an object
NestingShapes ==
    {[fam |-> "nesting", opens |-> opens] : opens \in SeqsUpTo(BOOLEAN, MaxOpen)}

\* the text of an opening
Opening(isobj) ==
    IF isobj THEN <<CH.lbrace, CH.quote, CH.a, CH.quote, CH.colon>> ELSE <<CH.lbracket>>

RECURSIVE NestingText(_, _)
\* the openings from the k-th on, the number, and their closings
NestingText(opens, k) ==
    IF k > Len(opens) THEN <<CH.one>>
    ELSE Opening(opens[k]) \o NestingText(opens, k + 1)
         \o <<IF opens[k] THEN CH.rbrace ELSE CH.rbracket>>

RECURSIVE OpeningAt(_, _)
\* the C index of the bracket of the k-th opening
OpeningAt(opens, k) ==
    IF k = 1 THEN 0 ELSE OpeningAt(opens, k - 1) + Len(Opening(opens[k - 1]))

RECURSIVE NestingValue(_, _)
NestingValue(opens, k) ==
    IF k > Len(opens) THEN IntVal(1)
    ELSE IF opens[k]
    THEN ObjVal(<<Pair(<<CH.a>>, OpeningAt(opens, k) + 1, FALSE,
                     NestingValue(opens, k + 1))>>)
    ELSE ArrVal(<<NestingValue(opens, k + 1)>>)

InitNesting ==
    \E limit \in 0..RecursionLimit, sh \in NestingShapes :
        StartScan([StrictScanner EXCEPT !.recursion_limit = limit],
                  NestingText(sh.opens, 1), sh)

SpecNesting == InitNesting /\ [][Next]_scan_vars

\* the nesting of the input exceeds the recursion limit
TooDeep == Len(shape.opens) > s.recursion_limit

TooDeeplyNested(isobj) ==
    IF isobj THEN "Object is too deeply nested" ELSE "Array is too deeply nested"

\* C12: an input whose container nesting exceeds the recursion limit L
\* fails with a syntax diagnostic, never with an unconverted recursion
\* error, and the message names the container whose opening exceeded the
\* limit.
C12_DepthSafety ==
    (pc = "done" /\ TooDeep) =>
        err.msg = TooDeeplyNested(shape.opens[s.recursion_limit + 1])

\* what scan_once_unicode does: the diagnostic is that of the innermost
\* container that was entered, at its bracket, and there is none when no
\* container was entered
C12_EnclosingContainer ==
    (pc = "done" /\ TooDeep) =>
        IF s.recursion_limit = 0
        THEN err = RecursionError.err
        ELSE err = [msg |-> TooDeeplyNested(shape.opens[s.recursion_limit]),
                    start |-> OpeningAt(shape.opens, s.recursion_limit),
                    end |-> 0]

\* an input within the limit is scanned
C12_WithinLimit ==
    (pc = "done" /\ ~TooDeep) =>
        (err = NoErr /\ rval = NestingValue(shape.opens, 1))

\* an object opened inside an array exceeded the limit and the diagnostic
\* names the array
C12_Witness ==
    /\ pc = "done"
    /\ TooDeep
    /\ s.recursion_limit = 2
    /\ ~shape.opens[2] /\ shape.opens[3]
    /\ err.msg = "Array is too deeply nested"

\* the first opening exceeded the limit and the RecursionError is the
\* result of the call
C12_WitnessUnconverted ==
    /\ pc = "done"
    /\ TooDeep
    /\ s.recursion_limit = 0
    /\ err.msg = "RecursionError"

(***************************************************************************)
(* Inputs of values with shared and circular containers: a heap of         *)
(* MaxHeap lists and dicts whose items are 0 or references into the heap,  *)
(* the value encoded being the first of them.  Only the containers whose    *)
(* index is below the recursion limit hold references, so that a cycle     *)
(* closes, and a chain ends, before the recursion limit of the interpreter *)
(* is reached.                                                             *)
(***************************************************************************)
MaxHeap == 3

\* encoder_new with the standard separators, no indent, and every flag off
\* but quoted_keys
CompactEncoder ==
    [allow_nan_and_infinity |-> FALSE, allow_surrogates |-> FALSE,
     allow_non_str_keys |-> FALSE, check_circular |-> FALSE,
     skipkeys |-> FALSE, sort_keys |-> FALSE, ensure_ascii |-> FALSE,
     indent |-> [none |-> TRUE, text |-> <<>>],
     indent_leaves |-> FALSE, max_indent_level |-> NoIndentLimit,
     quoted_keys |-> TRUE, trailing_comma |-> FALSE,
     item_separator |-> <<CH.comma>>, long_item_separator |-> <<CH.comma, CH.space>>,
     key_separator |-> <<CH.colon, CH.space>>, end |-> <<CH.lf>>]

\* a list of the children, or a dict of them under the keys "a" and "b"
ContainerOf(isobj, children) ==
    IF isobj
    THEN ObjVal([k \in 1..Len(children) |->
                   Pair(<<IF k = 1 THEN CH.a ELSE CH.b>>, 0, FALSE, children[k])])
    ELSE ArrVal(children)

HeapContainers(children, n) ==
    {ContainerOf(isobj, c) : isobj \in BOOLEAN, c \in SeqsUpTo(children, n)}

Heaps ==
    {h \in [1..MaxHeap -> HeapContainers({IntVal(0)} \cup {RefVal(i) : i \in 1..MaxHeap}, 2)] :
        \A i \in 1..MaxHeap :
            i >= RecursionLimit => h[i] \in HeapContainers({IntVal(0)}, 1)}

\* encoder_call about to run on v, scanner_call with so after it
StartEncode(enc, so, v, h, sh) ==
    /\ gen = "speedups"
    /\ s = so
    /\ encoder = enc
    /\ obj = v
    /\ heap = h
    /\ alloc = NoFault
    /\ pystr = <<>>
    /\ shape = sh
    /\ pc = "encode"
    /\ idx = 0
    /\ rval = NoVal
    /\ err = NoErr

InitCircular ==
    \E check \in BOOLEAN, h \in Heaps :
        StartEncode([CompactEncoder EXCEPT !.check_circular = check],
                    ScannerFor(CompactEncoder), RefVal(1), h, [fam |-> "graph"])

SpecCircular == InitCircular /\ [][RoundTripNext]_scan_vars

\* the items of a list or the values of a dict of the heap
ContentsOf(i) == IF heap[i].t = "arr" THEN heap[i].items ELSE PyDict_Values(heap[i])

\* the containers that are items of container i
ChildrenOf(i) ==
    {j \in 1..MaxHeap : \E k \in 1..Len(ContentsOf(i)) : ContentsOf(i)[k] = RefVal(j)}

RECURSIVE ReachableFrom(_)
\* the containers of S and those inside them
ReachableFrom(S) ==
    IF UNION {ChildrenOf(i) : i \in S} \subseteq S THEN S
    ELSE ReachableFrom(S \cup UNION {ChildrenOf(i) : i \in S})

\* some container of the value is reachable from itself
HasCycle == \E i \in ReachableFrom({1}) : i \in ReachableFrom(ChildrenOf(i))

RECURSIVE Unfolded(_, _)
\* the tree a value without cycle denotes
Unfolded(v, fuel) ==
    IF fuel = 0 \/ ~IsContainer(v) THEN v
    ELSE IF Deref(v).t = "arr"
    THEN ArrVal([k \in 1..Len(Deref(v).items) |-> Unfolded(Deref(v).items[k], fuel - 1)])
    ELSE ObjVal([k \in 1..Len(Deref(v).pairs) |->
                   [Deref(v).pairs[k] EXCEPT !.val = Unfolded(@, fuel - 1)]])

\* C13: with check_circular=true, encoding a value in which some array or
\* object is reachable from itself fails with "Unexpected circular
\* reference", and a value in which a container occurs several times but
\* never inside itself is encoded without error.
C13_CircularReference ==
    (shape.fam = "graph" /\ encoder.check_circular /\ pc # "encode") =>
        IF HasCycle
        THEN pc = "done" /\ err.msg = "Unexpected circular reference"
        ELSE /\ err = NoErr
             /\ pc = "done" => Canon(rval) = Canon(Unfolded(obj, MaxHeap))

\* without markers a cycle ends in the RecursionError of the interpreter
C13_Unchecked ==
    (shape.fam = "graph" /\ ~encoder.check_circular /\ pc # "encode" /\ HasCycle) =>
        (pc = "done" /\ err.msg = "RecursionError")

\* a cycle of a list and a dict was refused
C13_Witness ==
    /\ shape.fam = "graph"
    /\ encoder.check_circular
    /\ pc = "done"
    /\ err.msg = "Unexpected circular reference"
    /\ heap[1].t = "arr" /\ heap[2].t = "obj"
    /\ 2 \in ChildrenOf(1) /\ 1 \in ChildrenOf(2)
    /\ 1 \notin ChildrenOf(1) /\ 2 \notin ChildrenOf(2)

\* a value in which the last container occurs as an item of the two others
\* and twice in one of them was encoded and scanned
C13_WitnessShared ==
    /\ shape.fam = "graph"
    /\ encoder.check_circular
    /\ pc = "done"
    /\ err = NoErr
    /\ ~HasCycle
    /\ ChildrenOf(1) = {2, MaxHeap}
    /\ heap[2].t = "arr"
    /\ heap[2].items = <<RefVal(MaxHeap), RefVal(MaxHeap)>>

(***************************************************************************)
(* ascii_escape_unicode and scanstring_unicode applied one after the       *)
(* other to a text                                                         *)
(***************************************************************************)
MaxText == 3

\* `"`, `\`, LF and TAB (two-character escapes), U+0001 and U+001F (C0
\* controls), `a`, `~`, DEL, U+00E9 and U+FFFF (BMP), U+10000 and U+1F600
\* (supplementary)
EscapeAlphabet ==
    {CH.quote, CH.backslash, CH.lf, CH.tab, 1, 31, CH.a, CH.tilde, CH.del, 233,
     65535, 65536, 128512}

\* pystr becomes `"` + ascii_escape_unicode(obj) + `"`
AsciiEscape ==
    /\ pc = "escape"
    /\ pystr' = Quoted(ascii_escape_unicode(obj.chars, encoder.allow_surrogates)).out
    /\ pc' = "unescape"
    /\ UNCHANGED <<gen, s, encoder, obj, heap, shape, idx, rval, err, alloc>>

\* scanstring_unicode called with end after the opening quote returned r
StringScanned(r) ==
    IF ~r.ok THEN Raise(r.err)
    ELSE /\ rval' = r.val
         /\ idx' = r.next
         /\ pc' = "done"
         /\ err' = err

ScanString ==
    /\ pc = "unescape"
    /\ StringScanned(scanstring_unicode(s, pystr, 1))
    /\ UNCHANGED <<gen, s, encoder, obj, heap, pystr, shape, alloc>>

EscapeNext == AsciiEscape \/ ScanString

InitEscape ==
    \E text \in SeqsUpTo(EscapeAlphabet, MaxText) :
        /\ gen = "speedups"
        /\ s = StrictScanner
        /\ encoder = [CompactEncoder EXCEPT !.ensure_ascii = TRUE]
        /\ obj = StrVal(text)
        /\ heap = <<>>
        /\ alloc = NoFault
        /\ pystr = <<>>
        /\ shape = [fam |-> "escape"]
        /\ pc = "escape"
        /\ idx = 0
        /\ rval = NoVal
        /\ err = NoErr

SpecEscape == InitEscape /\ [][EscapeNext]_scan_vars

\* C14: for every string s without lone surrogates,
\* ascii_escape_unicode(s) contains only code points in 0x20..0x7E, and
\* scanning `"` + ascii_escape_unicode(s) + `"` with scanstring_unicode
\* returns s.
C14_EscapeUnescape ==
    (shape.fam = "escape" /\ pc # "escape") =>
        /\ \A k \in 1..Len(pystr) : pystr[k] >= CH.space /\ pystr[k] <= CH.tilde
        /\ pc = "done" => (err = NoErr /\ rval = obj /\ idx = Len(pystr))

\* a text of a control character, DEL and a supplementary code point was
\* escaped to 6 + 6 + 12 characters and scanned back
C14_Witness ==
    /\ shape.fam = "escape"
    /\ pc = "done"
    /\ obj = StrVal(<<1, CH.del, 128512>>)
    /\ Len(pystr) = 26
    /\ rval = obj

(***************************************************************************)
(* Inputs of texts with surrogate code points, encoded under both escape   *)
(* variants                                                                *)
(***************************************************************************)
\* `a`, `"`, U+00E9, the high surrogate U+D83D and the low surrogate U+DE00
SurrogateAlphabet == {CH.a, CH.quote, 233, 55357, 56832}

InitText ==
    \E ascii \in BOOLEAN, allow \in BOOLEAN,
       text \in SeqsUpTo(SurrogateAlphabet, MaxText) :
        StartEncode([CompactEncoder EXCEPT !.ensure_ascii = ascii,
                                           !.allow_surrogates = allow],
                    [StrictScanner EXCEPT !.allow_surrogates = allow],
                    StrVal(text), <<>>, [fam |-> "text"])

SpecText == InitText /\ [][RoundTripNext]_scan_vars

\* the text holds a surrogate code point
HasSurrogate(text) == \E k \in 1..Len(text) : text[k] >= 55296 /\ text[k] <= 57343

\* a code point of SurrogateAlphabet as the ASCII variant is to write it
AsciiSpelling(c) ==
    IF c = CH.a THEN <<CH.a>>
    ELSE IF c = CH.quote THEN <<CH.backslash, CH.quote>>
    ELSE IF c = 233 THEN <<CH.backslash, CH.u, CH.zero, CH.zero, CH.e, CH.nine>>
    ELSE IF c = 55357 THEN <<CH.backslash, CH.u, CH.d, CH.eight, CH.three, CH.d>>
    ELSE <<CH.backslash, CH.u, CH.d, CH.e, CH.zero, CH.zero>>

RECURSIVE AsciiSpellings(_)
AsciiSpellings(text) ==
    IF text = <<>> THEN <<>> ELSE AsciiSpelling(text[1]) \o AsciiSpellings(Tail(text))

\* C15: with allow_surrogates=false, encoding a string that contains a lone
\* surrogate code point fails with "Surrogates are not allowed" under both
\* escape variants; with allow_surrogates=true the ASCII variant emits it as
\* \uXXXX.
C15_SurrogatePolicy ==
    (shape.fam = "text" /\ pc # "encode" /\ HasSurrogate(obj.chars)) =>
        IF ~encoder.allow_surrogates
        THEN pc = "done" /\ err.msg = "Surrogates are not allowed"
        ELSE encoder.ensure_ascii =>
                pystr = <<CH.quote>> \o AsciiSpellings(obj.chars) \o <<CH.quote, CH.lf>>

\* what holds of the ASCII variant
C15_AsciiVariant ==
    (shape.fam = "text" /\ pc # "encode" /\ HasSurrogate(obj.chars)
     /\ encoder.ensure_ascii) =>
        IF ~encoder.allow_surrogates
        THEN pc = "done" /\ err.msg = "Surrogates are not allowed"
        ELSE pystr = <<CH.quote>> \o AsciiSpellings(obj.chars) \o <<CH.quote, CH.lf>>

\* what holds of the other variant: escape_unicode writes every surrogate
\* as it is, whatever allow_surrogates is
C15_RawVariant ==
    (shape.fam = "text" /\ pc # "encode" /\ ~encoder.ensure_ascii) =>
        /\ err.msg # "Surrogates are not allowed"
        /\ \A k \in 1..Len(obj.chars) :
              obj.chars[k] \notin {CH.quote} =>
                 \E j \in 1..Len(pystr) : pystr[j] = obj.chars[k]

\* a lone surrogate was written as it is although allow_surrogates is false
C15_Witness ==
    /\ shape.fam = "text"
    /\ ~encoder.ensure_ascii /\ ~encoder.allow_surrogates
    /\ obj = StrVal(<<55357>>)
    /\ pystr = <<CH.quote, 55357, CH.quote, CH.lf>>
    /\ err = NoErr

(***************************************************************************)
(* The code points of the text encode returns                              *)
(***************************************************************************)
IsAscii(text) == \A k \in 1..Len(text) : text[k] <= CH.del

RECURSIVE HasNonAscii(_)
\* some text or key of the value holds a code point above 0x7F
HasNonAscii(v) ==
    IF v.t = "str" THEN ~IsAscii(v.chars)
    ELSE IF v.t = "arr" THEN \E k \in 1..Len(v.items) : HasNonAscii(v.items[k])
    ELSE IF v.t = "obj"
    THEN \E k \in 1..Len(v.pairs) :
            ~IsAscii(v.pairs[k].key) \/ HasNonAscii(v.pairs[k].val)
    ELSE FALSE

C16_WitnessPlain ==
    /\ shape.fam = "value"
    /\ pc = "done"
    /\ ~encoder.ensure_ascii
    /\ obj = ArrVal(<<IntVal(0 - 120), ArrVal(<<IntVal(0), StrVal(<<>>)>>)>>)
    /\ IsAscii(pystr)

(***************************************************************************)
(* Inputs of dicts with keys of several types: up to MaxKeys items with    *)
(* unequal keys, every value 1, encoded without indent                     *)
(***************************************************************************)
MaxKeys == 3

\* a key, the text it is to be written as, whether that text is an
\* identifier, the text as the ASCII variant is to escape it, and ten times
\* the number the key is (0 if it is none)
KeyCase(key, text, ident, escaped, tenfold) ==
    [key |-> key, text |-> text, ident |-> ident, escaped |-> escaped,
     tenfold |-> tenfold]

\* the str "a", U+00E9 and "-"; the ints 10 and 2; True; None; the float
\* 2.5; a bytes object
KeyCases ==
    { KeyCase(StrVal(<<CH.a>>), <<CH.a>>, TRUE, <<CH.a>>, 0),
      KeyCase(StrVal(<<233>>), <<233>>, TRUE,
              <<CH.backslash, CH.u, CH.zero, CH.zero, CH.e, CH.nine>>, 0),
      KeyCase(StrVal(<<CH.minus>>), <<CH.minus>>, FALSE, <<CH.minus>>, 0),
      KeyCase(IntVal(10), <<CH.one, CH.zero>>, FALSE, <<CH.one, CH.zero>>, 100),
      KeyCase(IntVal(2), <<50>>, FALSE, <<50>>, 20),
      KeyCase(BoolVal(TRUE), WORD.true, TRUE, WORD.true, 10),
      KeyCase(NullVal, WORD.null, TRUE, WORD.null, 0),
      KeyCase(FloatVal("finite", <<50, CH.dot, 53>>), <<50, CH.dot, 53>>, FALSE,
              <<50, CH.dot, 53>>, 25),
      KeyCase(OtherVal("bytes"), <<>>, FALSE, <<>>, 0) }

MappingShapes ==
    {[fam |-> "mapping", keys |-> keys, bit |-> bit] :
        keys \in {ks \in SeqsUpTo(KeyCases, MaxKeys) :
                     \A i, j \in 1..Len(ks) : i # j => ks[i] # ks[j]},
        bit \in BOOLEAN}

\* the dict of a shape; bit is what the memory behind every key that is no
\* str holds where a str has its ASCII flag
MappingOf(sh) ==
    DictVal([k \in 1..Len(sh.keys) |-> Item(sh.keys[k].key, sh.bit, IntVal(1))])

InitMappings ==
    \E sort \in BOOLEAN, skip \in BOOLEAN, allow \in BOOLEAN, quoted \in BOOLEAN,
       ascii \in BOOLEAN, sh \in MappingShapes :
        StartEncode([CompactEncoder EXCEPT !.sort_keys = sort, !.skipkeys = skip,
                                           !.allow_non_str_keys = allow,
                                           !.quoted_keys = quoted,
                                           !.ensure_ascii = ascii],
                    ScannerFor([CompactEncoder EXCEPT !.quoted_keys = quoted]),
                    MappingOf(sh), <<>>, sh)

SpecMappings == InitMappings /\ [][RoundTripNext]_scan_vars

\* the call succeeded and what it wrote was scanned
MappingEncoded == shape.fam = "mapping" /\ pc = "done" /\ err = NoErr

\* the key texts of the object that was written, in the order written
Emitted == [k \in 1..Len(rval.pairs) |-> rval.pairs[k].key]

IsStrCase(c) == c.key.t = "str"

IsOtherCase(c) == c.key.t = "other"

\* the texts of the cases of a sequence
TextsOf(cases) == [k \in 1..Len(cases) |-> cases[k].text]

\* every key is written: it is a str, or has a coercion that is allowed
AllWritable ==
    \A k \in 1..Len(shape.keys) :
        ~IsOtherCase(shape.keys[k])
        /\ (IsStrCase(shape.keys[k]) \/ encoder.allow_non_str_keys)

\* the texts in ascending order
SortedTexts(texts) ==
    [p \in 1..Len(texts) |->
        texts[CHOOSE i \in 1..Len(texts) :
                  Cardinality({j \in 1..Len(texts) : TextLess(texts[j], texts[i])}) = p - 1]]

\* C17: with sort_keys=false a mapping is emitted in insertion order; with
\* sort_keys=true the members are emitted in the ascending order of their
\* key texts after coercion, for every mapping including ones with Int,
\* Float, Bool or None keys and ones mixing key types.
C17_MemberOrder ==
    (shape.fam = "mapping" /\ pc = "done" /\ AllWritable) =>
        /\ err = NoErr
        /\ Emitted = IF encoder.sort_keys THEN SortedTexts(TextsOf(shape.keys))
                     ELSE TextsOf(shape.keys)

\* the keys are all str, or all numbers
SameKind(cases) ==
    \/ \A k \in 1..Len(cases) : IsStrCase(cases[k])
    \/ \A k \in 1..Len(cases) : cases[k].key.t \in {"int", "bool", "float"}

\* case a comes before case b when the keys themselves are compared
CaseBefore(a, b) ==
    IF IsStrCase(a) THEN TextLess(a.text, b.text) ELSE a.tenfold < b.tenfold

\* the texts of the cases in the ascending order of the keys themselves
SortedCases(cases) ==
    [p \in 1..Len(cases) |->
        cases[CHOOSE i \in 1..Len(cases) :
                 Cardinality({j \in 1..Len(cases) \ {i} :
                                 CaseBefore(cases[j], cases[i])}) = p - 1].text]

\* what the code does for C17: with sort_keys=true the (key, value) pairs
\* are sorted before any key is coerced; keys of one kind come out in the
\* order of the keys themselves (numbers by value), two keys of different
\* kinds make the sort fail
C17_ItemOrder ==
    (shape.fam = "mapping" /\ pc = "done" /\ AllWritable) =>
        IF encoder.sort_keys /\ Len(shape.keys) > 1 /\ ~SameKind(shape.keys)
        THEN err.msg = "'<' not supported between instances"
        ELSE /\ err = NoErr
             /\ Emitted = IF encoder.sort_keys THEN SortedCases(shape.keys)
                          ELSE TextsOf(shape.keys)

\* the keys 10 and 2 were written sorted: 2 first, though "10" < "2"
C17_Witness ==
    /\ MappingEncoded
    /\ encoder.sort_keys
    /\ Emitted = <<<<50>>, <<CH.one, CH.zero>>>>
    /\ TextLess(Emitted[2], Emitted[1])

\* a str key and an int key, both allowed, and the sort failed
C17_WitnessMixed ==
    /\ shape.fam = "mapping" /\ pc = "done" /\ AllWritable
    /\ encoder.sort_keys
    /\ \E i, j \in 1..Len(shape.keys) :
          IsStrCase(shape.keys[i]) /\ shape.keys[j].key.t = "int"
    /\ err.msg = "'<' not supported between instances"

\* the sort, if there is one, does not fail
SortSucceeds == encoder.sort_keys /\ Len(shape.keys) > 1 => SameKind(shape.keys)

\* the key has a coercion but is no str
IsCoercedCase(c) == ~IsStrCase(c) /\ ~IsOtherCase(c)

\* the key has a coercion
HasCoercion(c) == ~IsOtherCase(c)

\* the key is not written under the encoder of this call
IsRefused(c) == IsOtherCase(c) \/ (IsCoercedCase(c) /\ ~encoder.allow_non_str_keys)

IsWritten(c) == ~IsRefused(c)

\* the set of the texts of a sequence
TextSet(texts) == {texts[k] : k \in 1..Len(texts)}

C18_WitnessRefused ==
    /\ shape.fam = "mapping" /\ pc = "done"
    /\ ~encoder.skipkeys /\ ~encoder.allow_non_str_keys
    /\ shape.keys[1].key = IntVal(10)
    /\ err.msg = "Non-string keys are not allowed"

\* the bytes key was refused though None came after it
C18_WitnessNoCoercion ==
    /\ shape.fam = "mapping" /\ pc = "done"
    /\ ~encoder.skipkeys /\ ~encoder.sort_keys
    /\ Len(shape.keys) = 2
    /\ IsOtherCase(shape.keys[1]) /\ shape.keys[2].key = NullVal
    /\ err.msg = "Keys must be str, not bytes"

\* the case of the key that was written as a text
CaseOf(text) == CHOOSE c \in KeyCases : c.text = text

\* the key is to be written without quotes, its text being ASCII or not
Unquoted(c, ascii) ==
    ~encoder.quoted_keys /\ c.ident /\ (~encoder.ensure_ascii \/ ascii)

\* the key between quotes, escaped as ensure_ascii selects (no key text
\* holds a code point that the other variant escapes)
QuotedSpelling(c) ==
    <<CH.quote>> \o (IF encoder.ensure_ascii THEN c.escaped ELSE c.text)
                 \o <<CH.quote>>

\* the text of a key is ASCII
CaseIsAscii(c) == \A k \in 1..Len(c.text) : c.text[k] <= CH.del

RECURSIVE SpelledMembers(_, _)
\* the members with the keys spelled so, each with the value 1
SpelledMembers(spelled, first) ==
    IF spelled = <<>> THEN <<>>
    ELSE (IF first THEN <<>> ELSE <<CH.comma, CH.space>>)
         \o spelled[1] \o <<CH.colon, CH.space, CH.one>>
         \o SpelledMembers(Tail(spelled), FALSE)

\* the object with these members, and the end text
SpelledObject(spelled) ==
    <<CH.lbrace>> \o SpelledMembers(spelled, TRUE) \o <<CH.rbrace, CH.lf>>

\* the key as the claim has it: the text decides
ClaimedSpelling(c) ==
    IF Unquoted(c, CaseIsAscii(c)) THEN c.text ELSE QuotedSpelling(c)

\* the key as the code has it: the ASCII flag is read from the key itself,
\* which for a key that is no str is whatever the memory holds there
ReadSpelling(c) ==
    IF Unquoted(c, IF IsStrCase(c) THEN CaseIsAscii(c) ELSE shape.bit)
    THEN c.text ELSE QuotedSpelling(c)

\* C19: a mapping key is emitted without quotes if and only if quoted_keys
\* is false, the coerced key text is a valid identifier, and (ensure_ascii
\* is false or the key text is pure ASCII); in every other case it is
\* emitted as `"` + escape(key text) + `"` using the escape variant selected
\* by ensure_ascii.
C19_KeyQuoting ==
    MappingEncoded => pystr = SpelledObject([k \in 1..Len(Emitted) |-> ClaimedSpelling(CaseOf(Emitted[k]))])

\* what the code does for C19: the claim with the ASCII test made on the
\* key object instead of the key text
C19_KeyQuotingAsRead ==
    MappingEncoded => pystr = SpelledObject([k \in 1..Len(Emitted) |-> ReadSpelling(CaseOf(Emitted[k]))])

\* the claim holds for the mappings whose written keys are all str
C19_TextKeyQuoting ==
    (MappingEncoded /\ \A k \in 1..Len(Emitted) : IsStrCase(CaseOf(Emitted[k]))) =>
        pystr = SpelledObject([k \in 1..Len(Emitted) |-> ClaimedSpelling(CaseOf(Emitted[k]))])

\* the key None was written as "null" between quotes, though quoted_keys is
\* false and null is an ASCII identifier
C19_Witness ==
    /\ MappingEncoded
    /\ ~encoder.quoted_keys /\ encoder.ensure_ascii
    /\ shape.keys = <<CaseOf(WORD.null)>>
    /\ pystr = <<CH.lbrace, CH.quote>> \o WORD.null
               \o <<CH.quote, CH.colon, CH.space, CH.one, CH.rbrace, CH.lf>>

\* the str key U+00E9 was written without quotes, and with them as é
C19_WitnessText ==
    /\ MappingEncoded
    /\ ~encoder.quoted_keys
    /\ shape.keys = <<CaseOf(<<233>>)>>
    /\ IF encoder.ensure_ascii THEN pystr[2] = CH.quote /\ pystr[3] = CH.backslash
       ELSE pystr[2] = 233

(***************************************************************************)
(* Inputs for key interning: the objects of MemberShapes of up to           *)
(* MaxInterned members, whole or with                                      *)
(* up to MaxCut characters cut off the end, scanned with and without       *)
(* cache_keys, into dicts or lists of pairs, with and without a str_hook   *)
(***************************************************************************)
MaxCut == 3

MaxInterned == 2

InterningShapes ==
    {[fam |-> "interning", members |-> sh.members, cut |-> cut] :
        sh \in {m \in MemberShapes : Len(m.members) <= MaxInterned}, cut \in 0..MaxCut}

InterningText(sh) ==
    SubSeq(ObjectText(sh.members), 1, Len(ObjectText(sh.members)) - sh.cut)

InitInterning ==
    \E so \in Scanners({"cache_keys", "object_hook", "str_hook"}),
       sh \in InterningShapes :
        StartScan(so, InterningText(sh), sh)

SpecInterning == InitInterning /\ [][Next]_scan_vars

\* what a call returns or raises
Outcome(e, v) == [err |-> e, rval |-> v]

\* scanner_call after scan_once_unicode returned v: sk is the result of the
\* trailing _skip_comments and of the end-of-file check
ScanOutcomeEnd(v, sk) ==
    IF ~sk.ok THEN Outcome(sk.err, NoVal) ELSE Outcome(NoErr, v)

\* scanner_call after scan_once_unicode returned r
ScanOutcomeTail(so, str, r) ==
    IF ~r.ok THEN Outcome(r.err, NoVal)
    ELSE ScanOutcomeEnd(r.val, EndOfFile(str, _skip_comments(so, str, r.next)))

\* scanner_call after the leading _skip_comments returned sk
ScanOutcomeBody(so, str, sk) ==
    IF ~sk.ok THEN Outcome(sk.err, NoVal)
    ELSE ScanOutcomeTail(so, str,
                         scan_once_unicode(so, IF so.cache_keys THEN NewMemo ELSE NoMemo,
                                           str, sk.idx, 0))

\* scanner_call as a function of the scanner and the text
ScanOutcome(so, str) ==
    IF Len(str) > 0 /\ READ(str, 0) = CH.bom
    THEN Outcome([msg |-> "Unexpected UTF-8 BOM", start |-> 0, end |-> 1], NoVal)
    ELSE ScanOutcomeBody(so, str, _skip_comments(so, str, 0))

\* two calls fail with the same diagnostic, or return equal trees
SameOutcome(a, b) ==
    a.err = b.err /\ WithoutIdentity(a.rval) = WithoutIdentity(b.rval)

RECURSIVE KeyOccurrences(_, _, _)
\* the key literals of the members k.. and of the objects in them, each
\* with the C index it is at; member k's key is at C index at
KeyOccurrences(members, k, at) ==
    IF k > Len(members) THEN {}
    ELSE {[chars |-> members[k].key.chars, at |-> at]}
         \cup (IF members[k].val.vt = "obj"
               THEN KeyOccurrences(members[k].val.members, 1,
                                   at + Len(members[k].key.text) + 2)
               ELSE {})
         \cup KeyOccurrences(members, k + 1, at + Len(MemberText(members[k])) + 1)

\* the C index of the first key literal of the text that spells chars
FirstOccurrence(chars) ==
    CHOOSE at \in {o.at : o \in {p \in KeyOccurrences(shape.members, 1, 1) : p.chars = chars}} :
        \A o \in KeyOccurrences(shape.members, 1, 1) : o.chars = chars => at <= o.at

RECURSIVE KeysShared(_)
\* every key of v and of the objects in it is the key object made at the
\* first occurrence of its text
KeysShared(v) ==
    v.t \in {"obj", "pairs"} =>
        \A k \in 1..Len(v.pairs) :
            /\ v.pairs[k].inst = FirstOccurrence(v.pairs[k].key)
            /\ KeysShared(v.pairs[k].val)

\* the scanner of the call with cache_keys the other way
OtherCache == [s EXCEPT !.cache_keys = ~s.cache_keys]

\* the call did what ScanOutcome says
CallDone ==
    /\ shape.fam = "interning" /\ pc = "done"
    /\ err = ScanOutcome(s, pystr).err
    /\ err = NoErr => rval = ScanOutcome(s, pystr).rval

\* C20: for every input text and every setting of the other scanner
\* options, scan with cache_keys=true and scan with cache_keys=false either
\* both fail with the same diagnostic or both return equal trees; with
\* cache_keys=true all occurrences of an equal key text in one scan are the
\* one instance stored at its first occurrence.
C20_KeyInterning ==
    (shape.fam = "interning" /\ pc = "done") =>
        /\ CallDone
        /\ SameOutcome(ScanOutcome(s, pystr), ScanOutcome(OtherCache, pystr))
        /\ (s.cache_keys /\ err = NoErr) => KeysShared(rval)

\* what the code does for C20: the claim holds for the scanners whose
\* str_hook is str; with a str_hook whose results cannot be hashed the memo
\* refuses the first quoted key, where a scan without memo goes on: the
\* call with memo ends as the call without memo does, or fails on that key
C20_InterningOfText ==
    (shape.fam = "interning" /\ pc = "done") =>
        /\ CallDone
        /\ IF s.str_hook = "str"
           THEN /\ SameOutcome(ScanOutcome(s, pystr), ScanOutcome(OtherCache, pystr))
                /\ (s.cache_keys /\ err = NoErr) => KeysShared(rval)
           ELSE s.cache_keys =>
                    \/ err.msg = "unhashable type: 'list'"
                    \/ SameOutcome(ScanOutcome(s, pystr), ScanOutcome(OtherCache, pystr))

\* the list of pairs came back without memo, and with it the call fails
C20_Witness ==
    /\ shape.fam = "interning" /\ pc = "done"
    /\ ~s.cache_keys /\ s.object_hook = "pairs" /\ s.str_hook = "list"
    /\ err = NoErr /\ rval.t = "pairs" /\ Len(rval.pairs) = 2
    /\ ScanOutcome(OtherCache, pystr).err.msg = "unhashable type: 'list'"

\* three literals of the key a, in two objects, and one key object
C20_WitnessShared ==
    /\ shape.fam = "interning" /\ pc = "done" /\ err = NoErr
    /\ s.cache_keys /\ s.str_hook = "str" /\ s.object_hook = "pairs"
    /\ Len(rval.pairs) = 2
    /\ rval.pairs[1].val.t = "pairs"
    /\ rval.pairs[1].inst = 1
    /\ rval.pairs[1].val.pairs[1].inst = 1
    /\ rval.pairs[2].inst = 1
    /\ rval.pairs[2].key = <<CH.a>>

\* a text cut short fails the same way with and without memo
C20_WitnessFailure ==
    /\ shape.fam = "interning" /\ pc = "done" /\ shape.cut > 0
    /\ s.cache_keys /\ s.str_hook = "str"
    /\ err.msg = "Expecting colon"
    /\ ScanOutcome(OtherCache, pystr).err = err

(***************************************************************************)
(* Inputs for the objects of a call: encodes that succeed and that fail,   *)
(* scans that succeed and that fail, and in each the allocations that can  *)
(* fail                                                                    *)
(***************************************************************************)
Faults == {"none", "create_indent_cache", "PyDict_New", "WriteStr"}

\* 1, [1], NaN (refused), [[], NaN] and {"a": [NaN]}
ResourceValues ==
    { IntVal(1), ArrVal(<<IntVal(1)>>), FloatVal("nan", <<>>),
      ArrVal(<<ArrVal(<<>>), FloatVal("nan", <<>>)>>),
      DictVal(<<Item(StrVal(<<CH.a>>), TRUE, ArrVal(<<FloatVal("nan", <<>>)>>))>>) }

\* `{"a":{"a":1}}`, whole, cut short, and after a BOM
ResourceTexts ==
    { <<CH.lbrace, CH.quote, CH.a, CH.quote, CH.colon, CH.lbrace, CH.quote, CH.a,
        CH.quote, CH.colon, CH.one, CH.rbrace, CH.rbrace>>,
      <<CH.lbrace, CH.quote, CH.a, CH.quote, CH.colon, CH.lbrace, CH.quote, CH.a,
        CH.quote, CH.colon, CH.one, CH.rbrace>>,
      <<CH.lbrace, CH.quote, CH.a, CH.quote, CH.colon, CH.lbrace, CH.quote, CH.a,
        CH.quote, CH.colon, CH.one, CH.rbrace, CH.rbrace, CH.rbrace>>,
      <<CH.bom, CH.lbrace, CH.rbrace>> }

InitResources ==
    \E fault \in Faults :
        /\ \/ \E indent \in BOOLEAN, check \in BOOLEAN, cache \in BOOLEAN,
                 v \in ResourceValues :
                  /\ encoder = [CompactEncoder EXCEPT
                                   !.indent = [none |-> ~indent,
                                               text |-> IF indent THEN <<CH.space>>
                                                        ELSE <<>>],
                                   !.check_circular = check]
                  /\ s = [StrictScanner EXCEPT !.cache_keys = cache]
                  /\ obj = v
                  /\ pystr = <<>>
                  /\ pc = "encode"
           \/ \E cache \in BOOLEAN, text \in ResourceTexts :
                  /\ encoder = NoEncoder
                  /\ s = [StrictScanner EXCEPT !.cache_keys = cache]
                  /\ obj = NoVal
                  /\ pystr = text
                  /\ pc = "call"
        /\ gen = "speedups"
        /\ heap = <<>>
        /\ shape = [fam |-> "resources"]
        /\ idx = 0
        /\ rval = NoVal
        /\ err = NoErr
        /\ alloc = Resources(fault)

SpecResources == InitResources /\ [][RoundTripNext]_scan_vars

\* the call of the encoder, or of the scanner without encoder, has returned
EncodeReturned == shape.fam = "resources" /\ encoder # NoEncoder /\ pc # "encode"

ScanReturned == shape.fam = "resources" /\ encoder = NoEncoder /\ pc = "done"

\* the encode returned a text (every text ends with `end`)
EncodeSucceeded == pystr # <<>>

\* C21: on every exit path of encode (successful return and every error
\* return) the output buffer, the indent cache and the marker set created
\* on entry have each been released exactly once, and on every exit path of
\* scan the key-intern memo has been released exactly once.
C21_CallScoped ==
    /\ EncodeReturned =>
          /\ alloc.made.writer = 1 /\ alloc.freed.writer = 1
          /\ alloc.freed.indent_cache = alloc.made.indent_cache
          /\ alloc.freed.markers = alloc.made.markers
    /\ ScanReturned => alloc.freed.memo = alloc.made.memo

\* what the code does for C21: the writer and the memo are released once on
\* every path; the indent cache is released on the error paths only; the
\* markers are released once, and a second time when writing `end` fails
C21_ReleasedAsCoded ==
    /\ EncodeReturned =>
          /\ alloc.made.writer = 1 /\ alloc.freed.writer = 1
          /\ alloc.freed.indent_cache =
                IF EncodeSucceeded THEN 0 ELSE alloc.made.indent_cache
          /\ alloc.freed.markers =
                IF alloc.fault = "WriteStr" /\ err = MemoryError
                THEN 2 * alloc.made.markers ELSE alloc.made.markers
    /\ ScanReturned => alloc.freed.memo = alloc.made.memo

\* an encode with indent returned its text, and the indent cache it made
\* is not released
C21_Witness ==
    /\ EncodeReturned
    /\ ~encoder.indent.none
    /\ EncodeSucceeded
    /\ alloc.made.indent_cache = 1 /\ alloc.freed.indent_cache = 0

\* writing `end` failed, and the markers were released twice
C21_WitnessTwice ==
    /\ EncodeReturned
    /\ encoder.check_circular /\ alloc.fault = "WriteStr"
    /\ err = MemoryError
    /\ alloc.made.markers = 1 /\ alloc.freed.markers = 2

\* a scan with cache_keys failed after its memo was made and released
C21_WitnessMemo ==
    /\ ScanReturned
    /\ s.cache_keys /\ err.msg = "Unterminated object"
    /\ alloc.made.memo = 1 /\ alloc.freed.memo = 1

(***************************************************************************)
(* Inputs for _match_number_unicode: every text of up to MaxNumberLen      *)
(* characters of NumberAlphabet, matched from every index of the text      *)
(***************************************************************************)
MaxNumberLen == 5

\* - + 0 1 . e E
NumberAlphabet == {CH.minus, CH.plus, CH.zero, CH.one, CH.dot, CH.e, CH.E}

\* `_match_number_unicode(str, kind, len, &idx, &is_float)` with idx at
\* start and is_float 0: the return value, idx and is_float after it
MatchResult(r, start) ==
    IF r.ok THEN [t |-> "match", ok |-> TRUE, idx |-> r.idx, is_float |-> r.is_float]
    ELSE [t |-> "match", ok |-> FALSE, idx |-> start, is_float |-> FALSE]

MatchNumber ==
    /\ pc = "match"
    /\ rval' = MatchResult(_match_number_unicode(pystr, idx), idx)
    /\ pc' = "done"
    /\ UNCHANGED <<gen, s, encoder, obj, heap, pystr, shape, idx, err, alloc>>

InitNumbers ==
    \E text \in SeqsUpTo(NumberAlphabet, MaxNumberLen) \ {<<>>} :
        \E start \in 0..(Len(text) - 1) :
            /\ gen = "speedups"
            /\ s = StrictScanner
            /\ encoder = NoEncoder
            /\ obj = NoVal
            /\ heap = <<>>
            /\ alloc = NoFault
            /\ pystr = text
            /\ shape = [fam |-> "number", start |-> start]
            /\ pc = "match"
            /\ idx = start
            /\ rval = NoVal
            /\ err = NoErr

SpecNumbers == InitNumbers /\ [][MatchNumber]_scan_vars

\* w is one or more digits
AreDigits(w) == w # <<>> /\ \A k \in 1..Len(w) : w[k] \in 48..57

\* w matches 0 | [1-9][0-9]*
IsUnsigned(w) == AreDigits(w) /\ (w[1] = 48 => Len(w) = 1)

\* w matches -? (0 | [1-9][0-9]*)
IsInteger(w) ==
    w # <<>> /\ IF w[1] = 45 THEN IsUnsigned(Tail(w)) ELSE IsUnsigned(w)

\* w matches (\.[0-9]+)?
IsFraction(w) == w = <<>> \/ (w[1] = 46 /\ AreDigits(Tail(w)))

\* w matches ([eE][+-]?[0-9]+)?
IsExponent(w) ==
    \/ w = <<>>
    \/ /\ w[1] \in {69, 101}
       /\ Len(w) >= 2
       /\ IF w[2] \in {43, 45} THEN AreDigits(Tail(Tail(w))) ELSE AreDigits(Tail(w))

\* w matches -? (0 | [1-9][0-9]*) (\.[0-9]+)? ([eE][+-]?[0-9]+)?
IsNumber(w) ==
    \E i \in 1..Len(w) : \E j \in i..Len(w) :
        /\ IsInteger(SubSeq(w, 1, i))
        /\ IsFraction(SubSeq(w, i + 1, j))
        /\ IsExponent(SubSeq(w, j + 1, Len(w)))

\* the n characters of the text from start on
PrefixAt(n) == SubSeq(pystr, shape.start + 1, shape.start + n)

\* the lengths of the prefixes at start that are numbers
NumberLengths == {n \in 1..(Len(pystr) - shape.start) : IsNumber(PrefixAt(n))}

\* the longest of them
LongestNumber == CHOOSE n \in NumberLengths : \A m \in NumberLengths : m <= n

\* C22: for every text and start position, _match_number_unicode fails iff
\* no non-empty prefix at start matches -? (0 | [1-9][0-9]*), and otherwise
\* returns as end the end of the longest prefix matching
\* -? (0 | [1-9][0-9]*) (\.[0-9]+)? ([eE][+-]?[0-9]+)? with is_float true
\* iff a fraction or an exponent was consumed; a `.` not followed by a
\* digit and an e/E (with optional sign) not followed by a digit are left
\* unconsumed, also when they are the last characters of the text.
C22_NumberMatcher ==
    (shape.fam = "number" /\ pc = "done") =>
        /\ ~rval.ok <=> \A n \in 1..(Len(pystr) - shape.start) : ~IsInteger(PrefixAt(n))
        /\ rval.ok =>
              /\ rval.idx = shape.start + LongestNumber
              /\ rval.is_float <=>
                    \E k \in 1..LongestNumber : PrefixAt(LongestNumber)[k] \in {46, 69, 101}

\* `-1.0E` from the 1 on: the fraction is consumed, the E at the end of the
\* text is not
C22_Witness ==
    /\ shape.fam = "number" /\ pc = "done"
    /\ pystr = <<CH.minus, CH.one, CH.dot, CH.zero, CH.E>>
    /\ shape.start = 1
    /\ rval.ok /\ rval.idx = 4 /\ rval.is_float

\* `1e-0`: the exponent with its sign is consumed
C22_WitnessExponent ==
    /\ shape.fam = "number" /\ pc = "done"
    /\ pystr = <<CH.one, CH.e, CH.minus, CH.zero>>
    /\ shape.start = 0
    /\ rval.ok /\ rval.idx = 4 /\ rval.is_float

\* `0.` : the dot at the end of the text is left, the number is an integer
C22_WitnessDot ==
    /\ shape.fam = "number" /\ pc = "done"
    /\ pystr = <<CH.zero, CH.dot>>
    /\ shape.start = 0
    /\ rval.ok /\ rval.idx = 1 /\ ~rval.is_float

\* `-`: no digit after the sign
C22_WitnessFailure ==
    /\ shape.fam = "number" /\ pc = "done"
    /\ pystr = <<CH.one, CH.minus>>
    /\ shape.start = 1
    /\ ~rval.ok

(***************************************************************************)
(* Inputs of string literals for the diagnostics of scanstring_unicode:    *)
(* the opening quote, up to MaxEscapes tokens, and the closing quote, no   *)
(* closing quote, or a `\` at the end of the text                          *)
(***************************************************************************)
MaxEscapes == 2

EscapeToken(text, class, c) == [text |-> text, class |-> class, c |-> c]

\* `\` and a letter that stands for the character c
LetterEscape(letter, c) == EscapeToken(<<CH.backslash, letter>>, "char", c)

\* "plain": the character z; "lf", "cr": a raw line end; "ctrl": another raw
\* character up to 0x1F; "char": a one-letter escape; "hex": `\u` and four
\* hex digits; "nohex": `\u` and fewer than four hex digits (no token
\* begins with a hex digit); "noescape": `\` before a line end; "invalid":
\* `\` before another character.  c is the character the token denotes.
EscapeTokens ==
    { EscapeToken(<<CH.z>>, "plain", CH.z),
      EscapeToken(<<CH.lf>>, "lf", 0), EscapeToken(<<CH.cr>>, "cr", 0),
      EscapeToken(<<CH.tab>>, "ctrl", 0), EscapeToken(<<0>>, "ctrl", 0),
      EscapeToken(<<31>>, "ctrl", 0),
      LetterEscape(CH.quote, CH.quote), LetterEscape(CH.backslash, CH.backslash),
      LetterEscape(CH.slash, CH.slash), LetterEscape(CH.b, CH.bs),
      LetterEscape(CH.f, CH.ff), LetterEscape(CH.n, CH.lf),
      LetterEscape(CH.r, CH.cr), LetterEscape(CH.t, CH.tab),
      EscapeToken(<<CH.backslash, CH.u, CH.zero, CH.zero, CH.e, CH.nine>>, "hex", 233),
      EscapeToken(<<CH.backslash, CH.u, CH.zero, CH.zero, CH.E, CH.nine>>, "hex", 233),
      EscapeToken(<<CH.backslash, CH.u, CH.zero, CH.a, CH.F, CH.one>>, "hex", 2801),
      EscapeToken(<<CH.backslash, CH.u>>, "nohex", 0),
      EscapeToken(<<CH.backslash, CH.u, CH.one>>, "nohex", 0),
      EscapeToken(<<CH.backslash, CH.u, CH.one, CH.F>>, "nohex", 0),
      EscapeToken(<<CH.backslash, CH.u, CH.one, CH.f, CH.A>>, "nohex", 0),
      EscapeToken(<<CH.backslash, CH.lf>>, "noescape", 0),
      EscapeToken(<<CH.backslash, CH.cr>>, "noescape", 0),
      EscapeToken(<<CH.backslash, CH.z>>, "invalid", 0),
      EscapeToken(<<CH.backslash, CH.a>>, "invalid", 0),
      EscapeToken(<<CH.backslash, CH.zero>>, "invalid", 0),
      EscapeToken(<<CH.backslash, 85>>, "invalid", 0),
      EscapeToken(<<CH.backslash, CH.space>>, "invalid", 0) }

\* how the text ends after the tokens
StringEnds ==
    { [text |-> <<CH.quote>>, class |-> "quote"],
      [text |-> <<>>, class |-> "eof"],
      [text |-> <<CH.backslash>>, class |-> "backslash"] }

EscapeShapes ==
    [fam : {"unescape"}, toks : SeqsUpTo(EscapeTokens, MaxEscapes), tail : StringEnds]

InitUnescape ==
    \E sh \in EscapeShapes :
        StartScan(StrictScanner, Flatten(<<Quote>> \o sh.toks \o <<sh.tail>>), sh)

SpecUnescape == InitUnescape /\ [][Next]_scan_vars

\* the tokens that denote a character
Decodes(tok) == tok.class \in {"plain", "char", "hex"}

\* the tokens before the first one that denotes no character
RECURSIVE DecodedTokens(_)
DecodedTokens(toks) ==
    IF toks = <<>> \/ ~Decodes(toks[1]) THEN <<>>
    ELSE <<toks[1]>> \o DecodedTokens(Tail(toks))

\* the class of the first token that denotes no character, or of the end of
\* the text
StopClass ==
    IF Len(DecodedTokens(shape.toks)) < Len(shape.toks)
    THEN shape.toks[Len(DecodedTokens(shape.toks)) + 1].class
    ELSE shape.tail.class

\* C23: inside a string literal a raw LF or CR, or end of input before the
\* closing quote, fails with "Unterminated string"; any other raw character
\* <= 0x1F fails with "Unescaped control character"; `\` followed by one of
\* " \ / b f n r t decodes to the corresponding character; `\u` decodes
\* exactly four hex digits of either case and fails with "Expecting 4 hex
\* digits" when fewer than four hex digits follow; `\` followed by LF, CR or
\* end of input fails with "Expecting escaped character" and `\` followed by
\* any other character fails with "Invalid backslash escape".
C23_UnescapeDiagnostics ==
    (shape.fam = "unescape" /\ pc = "done") =>
        /\ StopClass = "quote" =>
              /\ err = NoErr
              /\ rval = StrVal([k \in 1..Len(shape.toks) |-> shape.toks[k].c])
        /\ StopClass \in {"lf", "cr", "eof"} => err.msg = "Unterminated string"
        /\ StopClass = "ctrl" => err.msg = "Unescaped control character"
        /\ StopClass = "nohex" => err.msg = "Expecting 4 hex digits"
        /\ StopClass \in {"noescape", "backslash"} =>
              err.msg = "Expecting escaped character"
        /\ StopClass = "invalid" => err.msg = "Invalid backslash escape"

\* `"\bé"` was decoded to a backspace and U+00E9
C23_Witness ==
    /\ shape.fam = "unescape" /\ pc = "done"
    /\ pystr = <<CH.quote, CH.backslash, CH.b, CH.backslash, CH.u, CH.zero, CH.zero,
                 CH.E, CH.nine, CH.quote>>
    /\ err = NoErr
    /\ rval = StrVal(<<CH.bs, 233>>)

\* `"\u1fA"`: three hex digits and the closing quote
C23_WitnessHex ==
    /\ shape.fam = "unescape" /\ pc = "done"
    /\ pystr = <<CH.quote, CH.backslash, CH.u, CH.one, CH.f, CH.A, CH.quote>>
    /\ err.msg = "Expecting 4 hex digits"

\* `"z\`: the text ends after the backslash
C23_WitnessEnd ==
    /\ shape.fam = "unescape" /\ pc = "done"
    /\ pystr = <<CH.quote, CH.z, CH.backslash>>
    /\ err.msg = "Expecting escaped character"

\* a raw CR after an escape, and a raw 0x1F
C23_WitnessRaw ==
    /\ shape.fam = "unescape" /\ pc = "done"
    /\ \/ /\ pystr = <<CH.quote, CH.backslash, CH.n, CH.cr, CH.quote>>
          /\ err.msg = "Unterminated string"
       \/ /\ pystr = <<CH.quote, 31, CH.quote>>
          /\ err.msg = "Unescaped control character"

(***************************************************************************)
(* Layout of containers: nested lists and dicts written by encoders that   *)
(* differ in indent, max_indent_level, indent_leaves and trailing_comma    *)
(***************************************************************************)
\* the items of a container of the layout values
MaxLayoutItems == 2

LayoutLeaf == IntVal(1)

\* the keys of a dict of the layout values, by position
LayoutKeys == <<StrVal(<<CH.a>>), StrVal(<<CH.b>>)>>

\* a key that skipkeys drops
DroppedKey == OtherVal("bytes")

LayoutDict(children) ==
    DictVal([k \in 1..Len(children) |-> Item(LayoutKeys[k], TRUE, children[k])])

\* the lists and dicts of at most MaxLayoutItems of the values S
LayoutContainers(S) ==
    {ArrVal(c) : c \in SeqsUpTo(S, MaxLayoutItems)}
        \cup {LayoutDict(c) : c \in SeqsUpTo(S, MaxLayoutItems)}

LayoutFlat == {LayoutLeaf} \cup LayoutContainers({LayoutLeaf})

LayoutNested == {LayoutLeaf} \cup LayoutContainers(LayoutFlat)

\* dicts with a key that is dropped, before or after a key that is written
LayoutDropped ==
    {DictVal(<<Item(DroppedKey, TRUE, x)>>) : x \in LayoutFlat}
        \cup {DictVal(<<Item(DroppedKey, TRUE, x), Item(LayoutKeys[1], TRUE, y)>>) :
                x \in LayoutFlat, y \in LayoutFlat}
        \cup {DictVal(<<Item(LayoutKeys[1], TRUE, y), Item(DroppedKey, TRUE, x)>>) :
                x \in LayoutFlat, y \in LayoutFlat}

LayoutValues ==
    LayoutNested
        \cup {ArrVal(<<x>>) : x \in LayoutNested \cup LayoutDropped}
        \cup {ArrVal(<<x, LayoutLeaf>>) : x \in LayoutNested \cup LayoutDropped}
        \cup {LayoutDict(<<x>>) : x \in LayoutNested \cup LayoutDropped}
        \cup LayoutDropped

LayoutEncoders ==
    {[CompactEncoder EXCEPT !.indent = ind, !.max_indent_level = max,
                            !.indent_leaves = leaves, !.trailing_comma = trailing,
                            !.skipkeys = TRUE, !.end = <<>>] :
        ind \in {[none |-> TRUE, text |-> <<>>], [none |-> FALSE, text |-> <<CH.space>>]},
        max \in {0, 1, 2, NoIndentLimit},
        leaves \in BOOLEAN, trailing \in BOOLEAN}

InitLayout ==
    \E enc \in LayoutEncoders, v \in LayoutValues :
        StartEncode(enc, ScannerFor(CompactEncoder), v, <<>>, [fam |-> "layout"])

SpecLayout == InitLayout /\ [][EncoderCall]_scan_vars

\* the values held by a list or dict
LayoutChildren(v) ==
    IF v.t = "arr" THEN v.items ELSE [k \in 1..Len(v.items) |-> v.items[k].val]

IsWrittenItem(item) == item.key.t = "str"

\* the values of the items that are written: skipkeys drops the others
LayoutEmitted(v) ==
    IF v.t = "arr" THEN v.items
    ELSE [k \in 1..Len(SelectSeq(v.items, IsWrittenItem)) |->
            SelectSeq(v.items, IsWrittenItem)[k].val]

IsLayoutContainer(v) == v.t \in {"arr", "dict"}

\* the stated decision for the container v at indent level l; capped says
\* that an ancestor was not indented because of max_indent_level
StatedIndented(enc, v, l, capped) ==
    IF enc.indent.none \/ l >= enc.max_indent_level \/ capped THEN FALSE
    ELSE IF enc.indent_leaves THEN TRUE
    ELSE \E k \in 1..Len(LayoutChildren(v)) : IsLayoutContainer(LayoutChildren(v)[k])

\* how a container shows in the text: nothing between its brackets, a
\* newline after the opening bracket, or an item right after it
StatedClass(enc, v, l, capped) ==
    IF LayoutEmitted(v) = <<>> THEN "empty"
    ELSE IF StatedIndented(enc, v, l, capped) THEN "indented"
    ELSE "flat"

RECURSIVE StatedClasses(_, _, _, _)
RECURSIVE StatedClassesOf(_, _, _, _)
\* the classes of the containers among the values vals, and of their
\* descendants, in the order of their opening brackets
StatedClassesOf(enc, vals, l, capped) ==
    IF vals = <<>> THEN <<>>
    ELSE StatedClasses(enc, Head(vals), l, capped)
             \o StatedClassesOf(enc, Tail(vals), l, capped)

StatedClasses(enc, v, l, capped) ==
    IF ~IsLayoutContainer(v) THEN <<>>
    ELSE <<StatedClass(enc, v, l, capped)>>
             \o StatedClassesOf(enc, LayoutEmitted(v),
                                IF StatedIndented(enc, v, l, capped) THEN l + 1 ELSE l,
                                capped \/ (~enc.indent.none /\ l >= enc.max_indent_level))

RECURSIVE WrittenClasses(_, _)
\* the classes read off the text from position p on
WrittenClasses(out, p) ==
    IF p > Len(out) THEN <<>>
    ELSE IF out[p] \in {CH.lbracket, CH.lbrace}
    THEN <<IF out[p + 1] \in {CH.rbracket, CH.rbrace} THEN "empty"
           ELSE IF out[p + 1] = CH.lf THEN "indented"
           ELSE "flat">> \o WrittenClasses(out, p + 1)
    ELSE WrittenClasses(out, p + 1)

LayoutWritten == shape.fam = "layout" /\ pc # "encode"

\* C24: a container at indent level l is not indented if indent is none or
\* l >= max_indent_level, else it is indented if indent_leaves, else it is
\* indented iff one of its children is a list or dict; no descendant of a
\* container that max_indent_level kept from being indented is indented, and
\* a container without items is written as its two brackets
C24_IndentDecision ==
    LayoutWritten =>
        /\ err = NoErr
        /\ WrittenClasses(pystr, 1) = StatedClasses(encoder, obj, 0, FALSE)
        /\ (~encoder.indent.none /\ encoder.max_indent_level = 0)
               => \A p \in 1..Len(pystr) : pystr[p] # CH.lf

\* [[1], {}] under indent " ": the outer list is indented, the inner one is
\* not, the dict is empty
C24_Witness ==
    /\ LayoutWritten
    /\ obj = ArrVal(<<ArrVal(<<LayoutLeaf>>), LayoutDict(<<>>)>>)
    /\ ~encoder.indent.none /\ ~encoder.indent_leaves
    /\ encoder.max_indent_level = NoIndentLimit
    /\ WrittenClasses(pystr, 1) = <<"indented", "flat", "empty">>

\* [[[1]]] under max_indent_level 1: only the outer list is indented
C24_WitnessCapped ==
    /\ LayoutWritten
    /\ obj = ArrVal(<<ArrVal(<<ArrVal(<<LayoutLeaf>>)>>)>>)
    /\ ~encoder.indent.none /\ encoder.indent_leaves
    /\ encoder.max_indent_level = 1
    /\ WrittenClasses(pystr, 1) = <<"indented", "flat", "flat">>

\* {bytes: [1], "a": 1}: the list is a child, and is not written
C24_WitnessDropped ==
    /\ LayoutWritten
    /\ obj = DictVal(<<Item(DroppedKey, TRUE, ArrVal(<<LayoutLeaf>>)),
                       Item(LayoutKeys[1], TRUE, LayoutLeaf)>>)
    /\ ~encoder.indent.none /\ ~encoder.indent_leaves
    /\ encoder.max_indent_level = NoIndentLimit
    /\ WrittenClasses(pystr, 1) = <<"indented">>

RECURSIVE IndentTimes(_, _)
\* indent * k
IndentTimes(text, k) == IF k = 0 THEN <<>> ELSE text \o IndentTimes(text, k - 1)

\* newline + indent * depth
StatedNewline(enc, depth) == <<CH.lf>> \o IndentTimes(enc.indent.text, depth)

\* the items a container emits, each with the text written before its value
StatedItemsOf(enc, v) ==
    IF v.t = "arr" THEN [k \in 1..Len(v.items) |-> [pre |-> <<>>, val |-> v.items[k]]]
    ELSE [k \in 1..Len(SelectSeq(v.items, IsWrittenItem)) |->
            [pre |-> <<CH.quote>> \o SelectSeq(v.items, IsWrittenItem)[k].key.chars
                         \o <<CH.quote>> \o enc.key_separator,
             val |-> SelectSeq(v.items, IsWrittenItem)[k].val]]

\* what is stated to come before item i of a container whose items are
\* `depth` containers deep
StatedBefore(enc, i, indented, depth) ==
    IF i = 1 THEN IF indented THEN StatedNewline(enc, depth) ELSE <<>>
    ELSE IF indented THEN enc.item_separator \o StatedNewline(enc, depth)
    ELSE enc.long_item_separator

\* what is stated to come before the closing bracket of a container of n
\* emitted items
StatedClose(enc, n, indented, depth) ==
    IF indented /\ n >= 1
    THEN (IF enc.trailing_comma THEN enc.item_separator ELSE <<>>)
             \o StatedNewline(enc, depth - 1)
    ELSE <<>>

RECURSIVE StatedText(_, _, _, _)
RECURSIVE StatedItems(_, _, _, _, _, _)
\* the emitted items from item i on, each after what comes before it
StatedItems(enc, items, i, indented, depth, capped) ==
    IF i > Len(items) THEN <<>>
    ELSE StatedBefore(enc, i, indented, depth) \o items[i].pre
             \o StatedText(enc, items[i].val, depth, capped)
             \o StatedItems(enc, items, i + 1, indented, depth, capped)

\* the text of v, a value inside `depth` containers: Open, FirstItem,
\* NextItem*, Close
StatedText(enc, v, depth, capped) ==
    IF ~IsLayoutContainer(v) THEN PyObject_Str(v.n)
    ELSE <<IF v.t = "arr" THEN CH.lbracket ELSE CH.lbrace>>
             \o StatedItems(enc, StatedItemsOf(enc, v), 1,
                            StatedIndented(enc, v, depth, capped), depth + 1,
                            capped \/ (~enc.indent.none /\ depth >= enc.max_indent_level))
             \o StatedClose(enc, Len(StatedItemsOf(enc, v)),
                            StatedIndented(enc, v, depth, capped), depth + 1)
             \o <<IF v.t = "arr" THEN CH.rbracket ELSE CH.rbrace>>

\* C25: a container that emits n >= 1 items writes n-1 separators, one before
\* every item but the first: long_item_separator when it is not indented,
\* item_separator + newline + indent*depth when it is, the first item of an
\* indented container coming after newline + indent*depth; before the closing
\* bracket an indented container with items writes item_separator iff
\* trailing_comma, then newline + indent*(depth-1), and any other container
\* writes nothing; an item dropped by skipkeys does not count
C25_SeparatorsAndClose ==
    LayoutWritten => pystr = StatedText(encoder, obj, 0, FALSE)

\* {"a": [1, 1], "b": {}} with indent_leaves and trailing_comma
C25_Witness ==
    /\ LayoutWritten
    /\ obj = LayoutDict(<<ArrVal(<<LayoutLeaf, LayoutLeaf>>), LayoutDict(<<>>)>>)
    /\ ~encoder.indent.none /\ encoder.indent_leaves /\ encoder.trailing_comma
    /\ encoder.max_indent_level = NoIndentLimit
    /\ pystr = <<CH.lbrace, CH.lf, CH.space, CH.quote, CH.a, CH.quote, CH.colon,
                 CH.space, CH.lbracket, CH.lf, CH.space, CH.space, CH.one, CH.comma,
                 CH.lf, CH.space, CH.space, CH.one, CH.comma, CH.lf, CH.space,
                 CH.rbracket, CH.comma, CH.lf, CH.space, CH.quote, CH.b, CH.quote,
                 CH.colon, CH.space, CH.lbrace, CH.rbrace, CH.comma, CH.lf, CH.rbrace>>

\* [1, 1] written on one line
C25_WitnessFlat ==
    /\ LayoutWritten
    /\ obj = ArrVal(<<LayoutLeaf, LayoutLeaf>>)
    /\ ~encoder.indent.none /\ ~encoder.indent_leaves /\ encoder.trailing_comma
    /\ pystr = <<CH.lbracket, CH.one, CH.comma, CH.space, CH.one, CH.rbracket>>

\* {bytes: 1} with indent_leaves and trailing_comma: its only item is
\* dropped, and nothing is written between the brackets
C25_WitnessDropped ==
    /\ LayoutWritten
    /\ obj = DictVal(<<Item(DroppedKey, TRUE, LayoutLeaf)>>)
    /\ ~encoder.indent.none /\ encoder.indent_leaves /\ encoder.trailing_comma
    /\ encoder.max_indent_level = NoIndentLimit
    /\ pystr = <<CH.lbrace, CH.rbrace>>

(***************************************************************************)
(* ascii_escape_unicode of _accelerator.c                                  *)
(***************************************************************************)
\* U+D800, a surrogate that is not part of a pair
LoneSurrogate == 55296

\* the digits of `%x`, by value
LowerHexDigits ==
    <<"0", "1", "2", "3", "4", "5", "6", "7", "8", "9", "a", "b", "c", "d", "e", "f">>

RECURSIVE LowerHex(_)
\* `%x` of n
LowerHex(n) ==
    IF n < 16 THEN LowerHexDigits[n + 1]
    ELSE LowerHex(n \div 16) \o LowerHexDigits[(n % 16) + 1]

\* PyErr_Format(PyExc_ValueError, "Surrogate '\\u%x' can not be escaped", c)
SurrogateError(c) ==
    EncodeError("Surrogate '\\u" \o LowerHex(c) \o "' can not be escaped")

\* ascii_escape_unichar after the `if (c >= 0x10000)` block, which left c
\* and had written out
acc_ascii_escape_surrogate(c, out) ==
    IF c >= 55296 /\ c <= 57343 THEN SurrogateError(c)
    ELSE Written(out \o UnicodeEscapeOf(c))

\* ascii_escape_unichar: after the high surrogate was written c is the low
\* surrogate, and the test for a surrogate that follows is not an `else`
acc_ascii_escape_unichar(c) ==
    IF ShortEscape(c) # 0 THEN Written(<<CH.backslash, ShortEscape(c)>>)
    ELSE IF c >= 65536
    THEN acc_ascii_escape_surrogate(56320 + (c % 1024),
                                    <<CH.backslash>>
                                        \o UnicodeEscapeOf(55232 + (c \div 1024))
                                        \o <<CH.backslash>>)
    ELSE acc_ascii_escape_surrogate(c, <<CH.backslash>>)

RECURSIVE acc_ascii_escape_from(_, _, _)
\* the escape of input[i] was written (or failed) as esc
acc_ascii_escape_next(input, i, out, esc) ==
    IF ~esc.ok THEN esc
    ELSE acc_ascii_escape_from(input, i + 1, out \o esc.out)

\* the second loop of ascii_escape_unicode from C index i
acc_ascii_escape_from(input, i, out) ==
    IF i >= Len(input) THEN Written(Append(out, CH.quote))
    ELSE IF S_CHAR(READ(input, i))
    THEN acc_ascii_escape_from(input, i + 1, Append(out, READ(input, i)))
    ELSE acc_ascii_escape_next(input, i, out, acc_ascii_escape_unichar(READ(input, i)))

\* the quotes are written by ascii_escape_unicode itself
acc_ascii_escape_unicode(input) == acc_ascii_escape_from(input, 0, <<CH.quote>>)

\* py_encode_basestring_ascii returned r
acc_Escaped(r) ==
    IF ~r.ok THEN Raise(r.err) /\ pystr' = pystr
    ELSE /\ pystr' = r.out
         /\ pc' = "done"
         /\ UNCHANGED <<idx, rval, err>>

acc_AsciiEscape ==
    /\ pc = "acc_escape"
    /\ acc_Escaped(acc_ascii_escape_unicode(obj.chars))
    /\ UNCHANGED <<gen, s, encoder, obj, heap, shape, alloc>>

acc_InitEscape ==
    \E text \in SeqsUpTo(EscapeAlphabet \cup {LoneSurrogate}, MaxText) :
        /\ gen = "accelerator"
        /\ s = acc_StrictScanner
        /\ encoder = [CompactEncoder EXCEPT !.ensure_ascii = TRUE]
        /\ obj = StrVal(text)
        /\ heap = <<>>
        /\ alloc = NoFault
        /\ pystr = <<>>
        /\ shape = [fam |-> "acc_escape"]
        /\ pc = "acc_escape"
        /\ idx = 0
        /\ rval = NoVal
        /\ err = NoErr

acc_SpecEscape == acc_InitEscape /\ [][acc_AsciiEscape]_scan_vars

IsSupplementary(c) == c >= 65536

HasSupplementary(text) == \E k \in 1..Len(text) : IsSupplementary(text[k])

acc_EscapeDone == shape.fam = "acc_escape" /\ pc = "done"

\* C26: ascii_escape_unicode of _accelerator.c, applied to a string with a
\* code point >= U+10000 (and no surrogate), succeeds and writes the code
\* point as the twelve characters \uHHHH\uLLLL of its surrogate pair, as
\* ascii_escape_unicode of _speedups.c does
C26_SupplementaryEscaped ==
    (/\ acc_EscapeDone
     /\ HasSupplementary(obj.chars)
     /\ \A k \in 1..Len(obj.chars) : ~IsSurrogate(obj.chars[k]))
        => /\ err = NoErr
           /\ pystr = Quoted(ascii_escape_unicode(obj.chars, FALSE)).out

\* the first code point of text that is a surrogate or supplementary
FirstRefused(text) ==
    text[CHOOSE k \in 1..Len(text) :
             /\ IsSurrogate(text[k]) \/ IsSupplementary(text[k])
             /\ \A j \in 1..(k - 1) : ~IsSurrogate(text[j]) /\ ~IsSupplementary(text[j])]

\* what the code of _accelerator.c does: a string with a supplementary code
\* point or a surrogate is refused, with the low surrogate of the
\* supplementary code point in the message, and every other string is
\* written as _speedups.c writes it
C26_SupplementaryRefused ==
    acc_EscapeDone =>
        IF \E k \in 1..Len(obj.chars) :
               IsSurrogate(obj.chars[k]) \/ IsSupplementary(obj.chars[k])
        THEN /\ pystr = <<>>
             /\ err = SurrogateError(IF IsSupplementary(FirstRefused(obj.chars))
                                     THEN 56320 + (FirstRefused(obj.chars) % 1024)
                                     ELSE FirstRefused(obj.chars)).err
        ELSE /\ err = NoErr
             /\ pystr = Quoted(ascii_escape_unicode(obj.chars, FALSE)).out

\* U+1F600 alone is refused as the surrogate U+DE00
C26_Witness ==
    /\ acc_EscapeDone
    /\ obj.chars = <<128512>>
    /\ err.msg = "Surrogate '\\ude00' can not be escaped"
    /\ pystr = <<>>

\* `a` and U+00E9 are written as in _speedups.c
C26_WitnessSame ==
    /\ acc_EscapeDone
    /\ obj.chars = <<CH.a, 233>>
    /\ pystr = <<CH.quote, CH.a, CH.backslash, CH.u, CH.zero, CH.zero, CH.e, CH.nine,
                 CH.quote>>

(***************************************************************************)
(* The marker dict during an encode of a value of the heap                 *)
(***************************************************************************)
\* the identities of the containers of path
IdentsOf(path) == {path[k] : k \in 1..Len(path)}

\* path leads from the value that is encoded down through items
IsRecursionPath(path) ==
    /\ path # <<>> => path[1] = IdentOf(obj, <<>>)
    /\ \A k \in 1..(Len(path) - 1) : path[k + 1].id \in ChildrenOf(path[k].id)
    /\ Cardinality(IdentsOf(path)) = Len(path)

\* the path of state k of the trail; before the first state no container
\* is being encoded
PathAt(trail, k) == IF k = 0 THEN <<>> ELSE trail[k].path

\* one container was entered or left, the last of the path
IsPushOrPop(before, after) ==
    \/ Len(after) = Len(before) + 1 /\ SubSeq(after, 1, Len(before)) = before
    \/ Len(before) = Len(after) + 1 /\ SubSeq(before, 1, Len(after)) = after

GraphEncoded == shape.fam = "graph" /\ encoder.check_circular /\ pc # "encode"

\* C27: during an encode with check_circular the marker dict holds exactly
\* the identities of the lists and dicts on the recursion path, each
\* inserted on entry and removed on normal exit, last in first out, and
\* after a successful encode the dict is empty
C27_MarkerSet ==
    GraphEncoded =>
        /\ alloc.walk.ok <=> err = NoErr
        /\ \A k \in 1..Len(alloc.walk.trail) :
               /\ alloc.walk.trail[k].ids = IdentsOf(alloc.walk.trail[k].path)
               /\ IsRecursionPath(alloc.walk.trail[k].path)
               /\ IsPushOrPop(PathAt(alloc.walk.trail, k - 1), alloc.walk.trail[k].path)
        /\ alloc.walk.ok => /\ alloc.walk.ids = {}
                            /\ alloc.walk.trail # <<>>
                            /\ alloc.walk.trail[Len(alloc.walk.trail)].path = <<>>

\* the last container is an item of the two others, and twice of one of
\* them: it was inserted and removed three times
C27_Witness ==
    /\ GraphEncoded
    /\ alloc.walk.ok
    /\ alloc.walk.ids = {}
    /\ ChildrenOf(1) = {2, MaxHeap}
    /\ heap[2].t = "arr"
    /\ heap[2].items = <<RefVal(MaxHeap), RefVal(MaxHeap)>>
    /\ Cardinality({k \in 1..Len(alloc.walk.trail) :
                      /\ IdentOf(RefVal(MaxHeap), <<>>) \in alloc.walk.trail[k].ids
                      /\ IdentOf(RefVal(MaxHeap), <<>>)
                             \notin IdentsOf(PathAt(alloc.walk.trail, k - 1))}) = 3

\* a cycle was refused: the containers of the path stay in the dict
C27_WitnessRefused ==
    /\ GraphEncoded
    /\ ~alloc.walk.ok
    /\ err.msg = "Unexpected circular reference"
    /\ Cardinality(alloc.walk.ids) = 2

(***************************************************************************)
(* Termination of scanner_call, on the inputs of whitespace and comments,  *)
(* containers, keys, strings, escapes and nested brackets                  *)
(***************************************************************************)
InitTermination ==
    InitComments \/ InitContainers \/ InitKeys \/ InitStrings \/ InitUnescape
        \/ InitNesting

SpecTermination == InitTermination /\ [][Next]_scan_vars

\* the memo scan_once_unicode is called with
CallMemo == IF s.cache_keys THEN NewMemo ELSE NoMemo

\* the sub-parse r, started at C index i, consumed something and stayed
\* inside the text
Advanced(r, i) == r.ok => (r.next > i /\ r.next <= Len(pystr))

\* _skip_comments, started at i, did not move back or past the end
Skipped_Forward(sk, i) == sk.ok => (sk.idx >= i /\ sk.idx <= Len(pystr))

\* the colon and the comments around it, read from i
ColonAdvanced(col, i) == col.ok => (col.idx > i /\ col.idx <= Len(pystr))

\* after the value that ended at i the loop goes round from a later index,
\* or ends on the closing bracket at or after i
LoopAdvanced(after, i) ==
    after.ok => IF after.brk THEN after.idx >= i /\ after.idx < Len(pystr)
                ELSE after.idx > i /\ after.idx <= Len(pystr)

\* every step of the loops of the scanner, taken from C index i of the text
AdvancesFrom(i) ==
    /\ Skipped_Forward(_skip_comments(s, pystr, i), i)
    /\ Advanced(scan_once_unicode(s, CallMemo, pystr, i, 0), i)
    /\ Advanced(scanstring_unicode(s, pystr, i), i)
    /\ i < Len(pystr) => Advanced(ReadKey(s, pystr, i), i)
    /\ ColonAdvanced(ReadColon(s, pystr, i), i)
    /\ LoopAdvanced(ObjectAfterValue(s, pystr, 0, i), i)
    /\ LoopAdvanced(ArrayAfterValue(s, pystr, 0, i), i)

CursorAdvances == \A i \in 0..Len(pystr) : AdvancesFrom(i)

\* how far scanner_call has come
CallRank(p) == IF p = "call" THEN 0 ELSE IF p = "scan" THEN 1 ELSE IF p = "tail" THEN 2 ELSE 3

\* a step of scanner_call brings the call nearer to its end and does not
\* move the cursor back or past the end of the text
CallAdvances ==
    /\ CallRank(pc') > CallRank(pc)
    /\ idx' >= idx /\ idx' <= Len(pystr)
    /\ pc' = "done" => (err' = NoErr) # (rval' = NoVal)

\* C28: scan terminates for every text and every option setting: each step
\* of the whitespace/comment loop, the string loop, the object loop and the
\* array loop moves the cursor forward, every successful sub-parse returns
\* an index greater than the one it started at and at most len(T), and the
\* call ends, after its three steps at most, with a value or a diagnostic
C28_ScanTerminates == [](CursorAdvances) /\ [][CallAdvances]_scan_vars

\* an array with comments between its items was scanned to its end
C28_Witness ==
    /\ shape.fam = "container" /\ shape.kind = "array"
    /\ pc = "done" /\ err = NoErr
    /\ s.allow_comments
    /\ \E k \in 1..Len(pystr) : pystr[k] = CH.slash
    /\ Len(rval.items) = MaxItems
    /\ idx = Len(pystr)

\* an unterminated comment ended the call with a diagnostic
C28_WitnessDiagnostic ==
    /\ shape.fam = "comments" /\ pc = "done"
    /\ err.msg = "Unterminated comment"

(***************************************************************************)
(* The indent cache during an encode with an indent                        *)
(***************************************************************************)
\* the length of cache is odd, entry 2k is newline + indent * k, and entry
\* 2k-1 is item_separator + entry 2k
IsIndentCache(enc, cache) ==
    /\ Len(cache) % 2 = 1
    /\ \A k \in 0..((Len(cache) - 1) \div 2) :
           PyList_GET_ITEM(cache, 2 * k) = StatedNewline(enc, k)
    /\ \A k \in 1..((Len(cache) - 1) \div 2) :
           PyList_GET_ITEM(cache, 2 * k - 1)
               = enc.item_separator \o PyList_GET_ITEM(cache, 2 * k)

LayoutIndented == LayoutWritten /\ ~encoder.indent.none

\* C29: during an encode with an indent the length of the indent cache is
\* odd, entry 2k is newline + indent * k and entry 2k-1 is item_separator +
\* entry 2k; the cache grows by one level at a time (indent_level * 2 ==
\* length + 1 at every call of update_indent_cache), and every index that
\* get_item_separator and write_newline_indent read is within the cache
C29_IndentCache ==
    LayoutIndented =>
        /\ alloc.walk.ok
        /\ IsIndentCache(encoder, alloc.walk.cache)
        /\ \A k \in 1..Len(alloc.walk.updates) :
               /\ alloc.walk.updates[k].level > 0
               /\ alloc.walk.updates[k].level * 2 = alloc.walk.updates[k].size + 1
               /\ Len(alloc.walk.updates[k].cache) = alloc.walk.updates[k].size + 2
               /\ IsIndentCache(encoder, alloc.walk.updates[k].cache)
        /\ \A k \in 1..Len(alloc.walk.reads) :
               /\ alloc.walk.reads[k].index >= 0
               /\ alloc.walk.reads[k].index < alloc.walk.reads[k].size
               /\ alloc.walk.reads[k].size % 2 = 1

\* [[[1], [1]]] with indent_leaves: the cache grew to three levels, one at
\* a time, and the second inner list found its level in the cache
C29_Witness ==
    /\ LayoutIndented
    /\ obj = ArrVal(<<ArrVal(<<ArrVal(<<LayoutLeaf>>), ArrVal(<<LayoutLeaf>>)>>)>>)
    /\ encoder.indent_leaves /\ encoder.max_indent_level = NoIndentLimit
    /\ Len(alloc.walk.cache) = 7
    /\ Len(alloc.walk.updates) = 3
    /\ Len(alloc.walk.reads) = 12

\* max_indent_level 1: the cache stays at one level
C29_WitnessCapped ==
    /\ LayoutIndented
    /\ obj = ArrVal(<<ArrVal(<<ArrVal(<<LayoutLeaf>>), ArrVal(<<LayoutLeaf>>)>>)>>)
    /\ encoder.indent_leaves /\ encoder.max_indent_level = 1
    /\ Len(alloc.walk.cache) = 3

(***************************************************************************)
(* The two passes of ascii_escape_unicode and escape_unicode               *)
(***************************************************************************)
\* a supplementary code point counted as one \uXXXX
ascii_escape_width_BMP(c) ==
    IF S_CHAR(c) THEN 1
    ELSE IF ShortEscape(c) # 0 THEN 2
    ELSE 6

\* d of the first loop of ascii_escape_unicode
ascii_escape_width(c) ==
    IF S_CHAR(c) THEN 1
    ELSE IF ShortEscape(c) # 0 THEN 2
    ELSE IF c >= 65536 THEN 12 ELSE 6

\* d of the first loop of escape_unicode
escape_width(c) ==
    IF ShortEscape(c) # 0 THEN 2
    ELSE IF c <= 31 THEN 6 ELSE 1

RECURSIVE ascii_output_size(_, _, _)
\* "Compute the output size" of ascii_escape_unicode, from C index i
ascii_output_size(input, i, output_size) ==
    IF i >= Len(input) THEN output_size
    ELSE ascii_output_size(input, i + 1, output_size + ascii_escape_width(READ(input, i)))

RECURSIVE output_size_from(_, _, _)
\* "Compute the output size" of escape_unicode, from C index i
output_size_from(input, i, output_size) ==
    IF i >= Len(input) THEN output_size
    ELSE output_size_from(input, i + 1, output_size + escape_width(READ(input, i)))

\* Py_NewRef(pystr) when output_size == input_chars; otherwise
\* PyUnicode_New(output_size, ...) and the second loop, which wrote second
\* (or failed); chars is the index after the last unit written
TwoPasses(input, output_size, second) ==
    IF output_size = Len(input)
    THEN [ok |-> TRUE, out |-> input, borrowed |-> TRUE, output_size |-> output_size,
          chars |-> 0]
    ELSE IF ~second.ok THEN second
    ELSE [ok |-> TRUE, out |-> second.out, borrowed |-> FALSE,
          output_size |-> output_size, chars |-> Len(second.out)]

\* encoder_write_string up to the result of the escape function
EscapeOf(enc, input) ==
    IF ~enc.ensure_ascii
    THEN TwoPasses(input, output_size_from(input, 0, 0), escape_unicode(input))
    ELSE TwoPasses(input, ascii_output_size(input, 0, 0),
                   ascii_escape_unicode(input, enc.allow_surrogates))

\* the escape function returned r
Sized(r) ==
    IF ~r.ok THEN Raise(r.err) /\ pystr' = pystr
    ELSE /\ pystr' = r.out
         /\ rval' = [t |-> "sized", borrowed |-> r.borrowed,
                     output_size |-> r.output_size, chars |-> r.chars]
         /\ pc' = "done"
         /\ UNCHANGED <<idx, err>>

EscapeString ==
    /\ pc = "sizes"
    /\ Sized(EscapeOf(encoder, obj.chars))
    /\ UNCHANGED <<gen, s, encoder, obj, heap, shape, alloc>>

InitSizing ==
    \E text \in SeqsUpTo(EscapeAlphabet \cup {LoneSurrogate}, MaxText),
       ascii \in BOOLEAN, surrogates \in BOOLEAN :
        /\ gen = "speedups"
        /\ s = StrictScanner
        /\ encoder = [CompactEncoder EXCEPT !.ensure_ascii = ascii,
                                            !.allow_surrogates = surrogates]
        /\ obj = StrVal(text)
        /\ heap = <<>>
        /\ alloc = NoFault
        /\ pystr = <<>>
        /\ shape = [fam |-> "sizing"]
        /\ pc = "sizes"
        /\ idx = 0
        /\ rval = NoVal
        /\ err = NoErr

SpecSizing == InitSizing /\ [][EscapeString]_scan_vars

\* the code point c is not written as it is: a control character, `"` or
\* `\`, and, for the ASCII variant, DEL and everything above it
NeedsEscape(enc, c) ==
    \/ c <= 31 \/ c = CH.quote \/ c = CH.backslash
    \/ enc.ensure_ascii /\ c >= CH.del

SizingDone == shape.fam = "sizing" /\ pc = "done"

\* C30: for every string on which an escape function succeeds, the second
\* pass writes exactly the output_size code units the first pass computed,
\* and the input itself is returned exactly when none of its characters
\* needs an escape under that variant
C30_TwoPassSizing ==
    (SizingDone /\ err = NoErr) =>
        /\ rval.borrowed <=> \A k \in 1..Len(obj.chars) : ~NeedsEscape(encoder, obj.chars[k])
        /\ rval.borrowed => pystr = obj.chars
        /\ ~rval.borrowed => rval.chars = rval.output_size /\ Len(pystr) = rval.output_size

\* U+1F600, `"` and `a` under ensure_ascii: 12 + 2 + 1 code units
C30_Witness ==
    /\ SizingDone /\ err = NoErr
    /\ encoder.ensure_ascii
    /\ obj.chars = <<128512, CH.quote, CH.a>>
    /\ ~rval.borrowed
    /\ rval.output_size = 15 /\ rval.chars = 15

\* `a`, DEL and U+00E9 without ensure_ascii: the input is returned
C30_WitnessBorrowed ==
    /\ SizingDone /\ err = NoErr
    /\ ~encoder.ensure_ascii
    /\ obj.chars = <<CH.a, CH.del, 233>>
    /\ rval.borrowed /\ pystr = obj.chars

\* a lone surrogate that is not allowed: sized, and refused in the second
\* pass
C30_WitnessRefused ==
    /\ SizingDone
    /\ encoder.ensure_ascii /\ ~encoder.allow_surrogates
    /\ obj.chars = <<LoneSurrogate>>
    /\ err.msg = "Surrogates are not allowed"

====
